---- MODULE Spec2Model ----
(***************************************************************************)
(* The rules engine of the text adventure (engine.py) and its web driver   *)
(* (app.py): game state, dice, combat resolution, rewards.                 *)
(*                                                                         *)
(* Dice are nondeterministic draws: a d20 is any value of 1..20, the sum   *)
(* of n dice of size s any value of n..n*s.  Every engine function is an   *)
(* operator that takes the values it rolls as arguments and returns the    *)
(* new game state with the function's return value.                        *)
(***************************************************************************)
EXTENDS Integers, Sequences, FiniteSets, TLC

VARIABLES
    gs,        \* the GameState object of the session
    last,      \* what the latest call returned (its observable result)
    outcome,   \* terminal outcome reported for the latest encounter, "" if none
    payload,   \* an oracle enemy payload handed to create_enemy_from_llm
    built,     \* the Enemy create_enemy_from_llm built from payload
    dice,      \* the process's global DiceRoller: its seed attribute, the
               \* stream its rng is on and how many values it has drawn
    disk,      \* the save file: None while missing, else the JSON document
    enemy_seq, \* the Python type of current_enemy's damage_dice and gold_drop
               \* ("list" or "tuple"), followed by the save/load specification
    twin,      \* a second process that loaded the same save file
    logged,    \* every event handed to log_event, in arrival order, followed
               \* by the story log specification
    oracle,    \* the oracle request under way in _call_with_retry
    game_sessions, \* app.game_sessions: the GameState of each web session
    requests,  \* the requests of one web session that are being handled
    driver     \* the terminal driver: the function its loop is in

\* what only the save/load specifications change
aside == <<oracle, game_sessions, requests, driver>>
persist == <<dice, disk, enemy_seq, twin, logged, aside>>

vars == <<gs, last, outcome, payload, built, persist>>

\* Python's None
None == [none |-> TRUE]
\* a value held where None may be held instead
Some(x) == [some |-> x]

Max(a, b) == IF a >= b THEN a ELSE b
Min(a, b) == IF a <= b THEN a ELSE b

-----------------------------------------------------------------------------
(* Bounds of the model *)

\* combat entry is offered only while the player has gained at most this much
\* gold since character creation
MaxGoldWon == 0
\* combat entry is offered only while the inventory holds at most this many items
MaxInventory == 5
\* a player action against an enemy is offered only while the enemy's hp is
\* above minus this (the code lets a dead enemy be struck again and again)
MaxOverkill == 0
\* how far outside its legal range an oracle-supplied number may lie
Excess == 1
\* the largest value the random seed of get_seed may take (999999 in the code)
MaxRandSeed == 2
\* engine calls are offered while the roller has drawn at most this many values
MaxDraws == 2
\* the game is saved at most this many times
MaxSaves == 1

-----------------------------------------------------------------------------
(* Game data *)

CLASSES ==
    [fighter |-> [base_hp |-> 18, primary_stat |-> "STR", starting_gold |-> 10,
                  starting_items |-> <<"Longsword", "Chain Mail", "Health Potion">>,
                  ability |-> [name |-> "Second Wind", uses |-> 1,
                               cooldown_type |-> "rest", effect |-> "heal"]],
     rogue   |-> [base_hp |-> 12, primary_stat |-> "DEX", starting_gold |-> 15,
                  starting_items |-> <<"Dagger", "Leather Armor", "Lockpicks",
                                       "Health Potion">>,
                  ability |-> [name |-> "Sneak Attack", uses |-> 1,
                               cooldown_type |-> "combat", effect |-> "damage_boost"]],
     mage    |-> [base_hp |-> 10, primary_stat |-> "INT", starting_gold |-> 12,
                  starting_items |-> <<"Staff", "Robes", "Spell Component Pouch",
                                       "Health Potion", "Mana Potion">>,
                  ability |-> [name |-> "Fireball", uses |-> 2,
                               cooldown_type |-> "day", effect |-> "direct_damage"]]]

WEAPONS ==
    [n \in {"Longsword", "Dagger", "Staff", "Rusty Sword", "Hand Axe"} |->
        CASE n = "Longsword" -> [damage_dice |-> <<1, 8>>, stat |-> "STR"]
          [] n = "Dagger" -> [damage_dice |-> <<1, 4>>, stat |-> "DEX"]
          [] n = "Staff" -> [damage_dice |-> <<1, 6>>, stat |-> "INT"]
          [] OTHER -> [damage_dice |-> <<1, 6>>, stat |-> "STR"]]

\* ITEMS: type, effect and magnitude of every known item.  The heal value
\* "2d4+2" is kept as the dice expression use_item parses it into.
ITEMS ==
    [n \in {"Health Potion", "Mana Potion", "Lockpicks", "Chain Mail",
            "Leather Armor", "Robes", "Spell Component Pouch", "Rusty Key",
            "Ancient Amulet", "Gold Coins", "Torch"} |->
        CASE n = "Health Potion" ->
                [type |-> "consumable", effect |-> "heal",
                 num |-> 2, die |-> 4, flat |-> 2, ac_bonus |-> 0]
          [] n = "Mana Potion" ->
                [type |-> "consumable", effect |-> "restore_ability",
                 num |-> 0, die |-> 0, flat |-> 1, ac_bonus |-> 0]
          [] n = "Lockpicks" ->
                [type |-> "tool", effect |-> "skill_bonus",
                 num |-> 0, die |-> 0, flat |-> 2, ac_bonus |-> 0]
          [] n = "Chain Mail" ->
                [type |-> "armor", effect |-> "", num |-> 0, die |-> 0,
                 flat |-> 0, ac_bonus |-> 3]
          [] n = "Leather Armor" ->
                [type |-> "armor", effect |-> "", num |-> 0, die |-> 0,
                 flat |-> 0, ac_bonus |-> 2]
          [] n = "Robes" ->
                [type |-> "armor", effect |-> "", num |-> 0, die |-> 0,
                 flat |-> 0, ac_bonus |-> 1]
          [] n = "Spell Component Pouch" ->
                [type |-> "tool", effect |-> "enables_magic", num |-> 0,
                 die |-> 0, flat |-> 0, ac_bonus |-> 0]
          [] n = "Torch" ->
                [type |-> "tool", effect |-> "light", num |-> 0,
                 die |-> 0, flat |-> 0, ac_bonus |-> 0]
          [] n = "Gold Coins" ->
                [type |-> "treasure", effect |-> "", num |-> 0,
                 die |-> 0, flat |-> 10, ac_bonus |-> 0]
          [] OTHER ->
                [type |-> "key_item", effect |-> "", num |-> 0,
                 die |-> 0, flat |-> 0, ac_bonus |-> 0]]

-----------------------------------------------------------------------------
(* Dice *)

\* the faces of the d20
D20 == 1..20

\* DiceRoller.roll: the totals n dice of size s can show
DiceSums(n, s) == n..(n * s)

\* DiceRoller.roll_d20: raw roll plus modifier (no advantage is ever requested)
roll_d20_without_modifier(raw, modifier) == raw
roll_d20(raw, modifier) == raw + modifier

\* the k-th value (from 0) that random.Random(stream) draws, on a die of the
\* given size: a fixed function of the stream and the position
Stream(stream, k, sides) ==
    (((stream + 3) * (k + 5) * 7 + k * k + stream) % sides) + 1

\* DiceRoller(seed): the seed attribute and random.Random(seed).  Without a
\* seed the generator is on a stream the operating system picks (entropy).
DiceRoller(seed, entropy) ==
    [seed |-> seed, rng |-> IF seed = None THEN entropy ELSE seed.some,
     pos |-> 0]

\* the i-th value (from 0) the roller d draws next
Draw(d, i, sides) == Stream(d.rng, d.pos + i, sides)

\* the total of count values drawn from the i-th on: DiceRoller.roll
RECURSIVE SumDraws(_, _, _, _)
SumDraws(d, i, count, sides) ==
    IF count <= 0 THEN 0
    ELSE Draw(d, i, sides) + SumDraws(d, i + 1, count - 1, sides)

\* the roller after drawing count values
Advance(d, count) == [d EXCEPT !.pos = @ + count]

\* DiceRoller.roll_damage without the floor of 1
roll_damage_unfloored(dice_total, modifier) == dice_total + modifier

\* DiceRoller.roll_damage: the dice total plus modifier, at least 1
roll_damage(dice_total, modifier) == Max(1, dice_total + modifier)

-----------------------------------------------------------------------------
(* GameState methods *)

STATS == <<"STR", "DEX", "INT", "CHA">>

\* GameState.get_modifier
get_modifier(s, stat) ==
    IF stat \in DOMAIN s.stats THEN s.stats[stat].modifier ELSE 0

\* GameState.get_ac: 10 + DEX modifier + the highest armor bonus carried
get_ac(s) ==
    LET bonuses == {ITEMS[s.inventory[i]].ac_bonus :
                        i \in {j \in 1..Len(s.inventory) :
                                  /\ s.inventory[j] \in DOMAIN ITEMS
                                  /\ ITEMS[s.inventory[j]].type = "armor"}}
        armor_bonus == IF bonuses = {} THEN 0
                       ELSE CHOOSE b \in bonuses : \A c \in bonuses : c <= b
    IN  10 + get_modifier(s, "DEX") + Max(0, armor_bonus)

\* GameState.has_item
has_item(s, item) == \E i \in 1..Len(s.inventory) : s.inventory[i] = item

\* GameState.add_to_inventory
add_to_inventory(s, item) == [s EXCEPT !.inventory = Append(@, item)]

\* list.remove: drops the first occurrence
RemoveFirst(seq, item) ==
    LET i == CHOOSE k \in 1..Len(seq) :
                 seq[k] = item /\ \A j \in 1..(k - 1) : seq[j] # item
    IN  SubSeq(seq, 1, i - 1) \o SubSeq(seq, i + 1, Len(seq))

\* GameState.remove_from_inventory
remove_from_inventory_never(s, item) == s
remove_from_inventory(s, item) ==
    IF has_item(s, item) THEN [s EXCEPT !.inventory = RemoveFirst(@, item)] ELSE s

\* GameState.add_gold
add_gold_unclamped(s, amount) == [s EXCEPT !.gold = @ + amount]
add_gold_twice(s, amount) == [s EXCEPT !.gold = Max(0, @ + 2 * amount)]
add_gold(s, amount) == [s EXCEPT !.gold = Max(0, @ + amount)]

\* GameState.heal: the amount actually healed, and the state after it
heal_actual_requested(s, amount) == amount
heal_actual(s, amount) == Min(amount, s.max_hp - s.hp)
heal(s, amount) == [s EXCEPT !.hp = @ + heal_actual(s, amount)]

\* GameState.take_damage: the damage actually taken, and the state after it
damage_actual(s, amount) == Min(amount, s.hp)
take_damage_unclamped(s, amount) == [s EXCEPT !.hp = @ - amount]
take_damage(s, amount) == [s EXCEPT !.hp = @ - damage_actual(s, amount)]

\* GameState.is_dead
is_dead(s) == s.hp <= 0

\* GameState.get_equipped_weapon_data
get_equipped_weapon_data(s) ==
    IF s.equipped_weapon \in DOMAIN WEAPONS THEN WEAPONS[s.equipped_weapon]
    ELSE [damage_dice |-> <<1, 2>>, stat |-> "STR"]

\* GameState.get_class_data / get_ability_info
get_class_data(s) ==
    IF s.player_class \in DOMAIN CLASSES THEN CLASSES[s.player_class]
    ELSE CLASSES["fighter"]
get_ability_info(s) == get_class_data(s).ability

\* GameState.use_ability
use_ability_no_decrement(s) == s
use_ability(s) ==
    IF s.ability_uses > 0 THEN [s EXCEPT !.ability_uses = @ - 1] ELSE s

\* GameState.restore_ability_use
restore_ability_use_uncapped(s, amount) ==
    [s EXCEPT !.ability_uses = @ + amount]
restore_ability_use(s, amount) ==
    [s EXCEPT !.ability_uses = Min(s.ability_max_uses, @ + amount)]

\* GameState.rest
rest_revives(s) == [s EXCEPT !.hp = s.max_hp, !.game_over = FALSE]
rest_restores_all(s) == [s EXCEPT !.hp = s.max_hp, !.ability_uses = s.ability_max_uses]
rest(s) ==
    [s EXCEPT !.hp = s.max_hp,
              !.ability_uses = IF get_ability_info(s).cooldown_type = "rest"
                               THEN s.ability_max_uses ELSE @]

\* GameState.add_quest: quests is a dict, here a function on the quest ids
add_quest(s, quest_id, quest_data) ==
    [s EXCEPT !.quests = [k \in (DOMAIN @) \cup {quest_id} |->
                             IF k = quest_id THEN quest_data ELSE @[k]],
              !.active_quest = IF @ = None THEN Some(quest_id) ELSE @]

\* GameState.complete_quest: a quest that is not in quests changes nothing
complete_quest_keeps_active(s, quest_id) ==
    IF quest_id \in DOMAIN s.quests
    THEN [s EXCEPT !.quests[quest_id].status = "complete"]
    ELSE s
complete_quest(s, quest_id) ==
    IF quest_id \in DOMAIN s.quests
    THEN [s EXCEPT !.quests[quest_id].status = "complete",
                   !.active_quest = IF @ = Some(quest_id) THEN None ELSE @]
    ELSE s

\* the length of the story log
LogSize == 10

\* story_log[-n:], the last n entries of a list
LastN(seq, n) ==
    IF Len(seq) <= n THEN seq ELSE SubSeq(seq, Len(seq) - n + 1, Len(seq))

\* GameState.log_event: append, then keep the last 10
log_event_keeps_first(s, event) ==
    [s EXCEPT !.story_log = IF Len(@) >= LogSize THEN @ ELSE Append(@, event)]
log_event(s, event) ==
    [s EXCEPT !.story_log = IF Len(Append(@, event)) > LogSize
                            THEN LastN(Append(@, event), LogSize)
                            ELSE Append(@, event)]

-----------------------------------------------------------------------------
(* Character creation *)

\* calculate_modifier: (score - 10) // 2, Python's floor division
calculate_modifier(score) == (score - 10) \div 2

\* 4d6 drop lowest: sum(sorted(rolls)[1:])
DropLowest(rolls) ==
    LET lowest == CHOOSE m \in {rolls[i] : i \in 1..4} :
                      \A i \in 1..4 : m <= rolls[i]
    IN  rolls[1] + rolls[2] + rolls[3] + rolls[4] - lowest

\* generate_stats: rolls[stat] are the four d6 rolled for the stat
generate_stats(player_class, rolls) ==
    LET primary == CLASSES[player_class].primary_stat
        score(stat) == IF stat = primary THEN Min(18, DropLowest(rolls[stat]) + 2)
                       ELSE DropLowest(rolls[stat])
    IN  [stat \in {STATS[i] : i \in 1..4} |->
            [score |-> score(stat), modifier |-> calculate_modifier(score(stat))]]

\* the first inventory item that is a weapon, else the default "Fists"
FirstWeapon(inventory) ==
    LET idx == {i \in 1..Len(inventory) : inventory[i] \in DOMAIN WEAPONS}
    IN  IF idx = {} THEN "Fists"
        ELSE inventory[CHOOSE i \in idx : \A j \in idx : i <= j]

\* create_character
create_character(class_name, rolls) ==
    LET player_class == IF class_name \in DOMAIN CLASSES THEN class_name
                        ELSE "fighter"
        class_data == CLASSES[player_class]
        state == [player_class |-> player_class,
                  stats |-> generate_stats(player_class, rolls),
                  hp |-> class_data.base_hp,
                  max_hp |-> class_data.base_hp,
                  ac |-> 10,
                  gold |-> class_data.starting_gold,
                  inventory |-> class_data.starting_items,
                  equipped_weapon |-> FirstWeapon(class_data.starting_items),
                  ability_uses |-> class_data.ability.uses,
                  ability_max_uses |-> class_data.ability.uses,
                  sneak_attack_available |-> TRUE,
                  in_combat |-> FALSE,
                  current_enemy |-> None,
                  quests |-> <<>>,
                  active_quest |-> None,
                  turn_count |-> 0,
                  story_log |-> <<>>,
                  game_over |-> FALSE,
                  ending |-> None]
    IN  [state EXCEPT !.ac = get_ac(state)]

-----------------------------------------------------------------------------
(* Enemies *)

\* dict.get(key, default) on a payload: a function whose domain is the keys
\* the oracle supplied
Get(d, key, default) == IF key \in DOMAIN d THEN d[key] ELSE default

\* max(lo, min(hi, x))
Clamp_no_upper(lo, hi, x) == Max(lo, x)
Clamp(lo, hi, x) == Max(lo, Min(hi, x))

\* the damage_dice of create_enemy_from_llm: a two-element list is clamped,
\* anything else becomes (1, 6)
ClampDamageDice(damage_dice) ==
    IF Len(damage_dice) = 2
    THEN <<Clamp(1, 4, damage_dice[1]), Clamp(4, 12, damage_dice[2])>>
    ELSE <<1, 6>>

\* the gold_drop of create_enemy_from_llm: a two-element list [a, b] becomes
\* (max(0, a), max(a, b)), anything else (1, 5)
ClampGoldDrop(gold_drop) ==
    IF Len(gold_drop) = 2
    THEN <<Max(0, gold_drop[1]), Max(gold_drop[1], gold_drop[2])>>
    ELSE <<1, 5>>

\* create_enemy_from_llm
create_enemy_from_llm(enemy_data) ==
    LET hp == Clamp(1, 100, Get(enemy_data, "hp", 10))
    IN  [name |-> Get(enemy_data, "name", "Mysterious Creature"),
         hp |-> hp,
         max_hp |-> hp,
         ac |-> Clamp(8, 20, Get(enemy_data, "ac", 12)),
         attack_bonus |-> Clamp(-2, 8, Get(enemy_data, "attack_bonus", 2)),
         damage_dice |-> ClampDamageDice(Get(enemy_data, "damage_dice", <<1, 6>>)),
         damage_bonus |-> Clamp(0, 5, Get(enemy_data, "damage_bonus", 1)),
         xp |-> Clamp(10, 500, Get(enemy_data, "xp", 25)),
         gold_drop |-> ClampGoldDrop(Get(enemy_data, "gold_drop", <<1, 5>>)),
         loot |-> Get(enemy_data, "loot", <<>>)]

-----------------------------------------------------------------------------
(* Combat *)

\* the hit test shared by player_attack and enemy_attack: a raw 1 returns a
\* miss before the test, a raw 20 passes it whatever the total
attack_hits_by_total(raw, total, ac) == total >= ac
attack_hits(raw, total, ac) == raw # 1 /\ (total >= ac \/ raw = 20)

\* the dice count of the damage roll: doubled on a critical
crit_dice(num_dice, critical) == IF critical THEN num_dice * 2 ELSE num_dice

\* whether player_attack adds the sneak attack dice
sneak_applies(s, use_sneak_attack) ==
    use_sneak_attack /\ s.player_class = "rogue" /\ s.sneak_attack_available

\* the sneak attack is spent by the attack that applies it
consume_sneak_kept(available, sneak) == available
consume_sneak(available, sneak) == IF sneak THEN FALSE ELSE available

\* The result of an attack that rolled nothing or missed
NoHit(s, crit) ==
    [state |-> s, success |-> FALSE, damage |-> 0, critical |-> FALSE,
     crit |-> crit, num_dice |-> 0, sneak |-> FALSE]

\* player_attack.  raw is the d20, dice_total the damage dice, sneak_total the
\* 2d6 of the sneak attack (the last two are read only on the paths that roll
\* them).  crit is the local critical (raw = 20), num_dice the dice count the
\* damage roll used.  The CombatResult is built without its critical argument,
\* so its critical attribute keeps the default.
player_attack(s, use_sneak_attack, raw, dice_total, sneak_total) ==
    IF s.current_enemy = None THEN NoHit(s, FALSE)
    ELSE
      LET enemy == s.current_enemy
          weapon == get_equipped_weapon_data(s)
          modifier == get_modifier(s, weapon.stat)
          total == roll_d20(raw, modifier)
          critical == raw = 20
          num_dice == crit_dice(weapon.damage_dice[1], critical)
          sneak == sneak_applies(s, use_sneak_attack)
          damage == roll_damage(dice_total, modifier)
                        + (IF sneak THEN sneak_total ELSE 0)
      IN  IF attack_hits(raw, total, enemy.ac)
          THEN [state |-> [s EXCEPT !.current_enemy.hp = @ - damage,
                                    !.sneak_attack_available =
                                        consume_sneak(@, sneak)],
                success |-> TRUE, damage |-> damage, critical |-> FALSE,
                crit |-> critical, num_dice |-> num_dice, sneak |-> sneak]
          ELSE NoHit(s, critical)

\* enemy_attack
enemy_attack(s, raw, dice_total) ==
    IF s.current_enemy = None THEN NoHit(s, FALSE)
    ELSE
      LET enemy == s.current_enemy
          player_ac == get_ac(s)
          total == roll_d20(raw, enemy.attack_bonus)
          critical == raw = 20
          num_dice == crit_dice(enemy.damage_dice[1], critical)
          damage == roll_damage(dice_total, enemy.damage_bonus)
      IN  IF attack_hits(raw, total, player_ac)
          THEN [state |-> take_damage(s, damage),
                success |-> TRUE, damage |-> damage, critical |-> FALSE,
                crit |-> critical, num_dice |-> num_dice, sneak |-> FALSE]
          ELSE NoHit(s, critical)

\* The damage totals an attack with this d20 can roll: those of its dice on a
\* hit, a single unread value on a miss
PlayerDamageRolls(s, raw) ==
    LET weapon == get_equipped_weapon_data(s)
    IN  IF /\ s.current_enemy # None
           /\ attack_hits(raw, roll_d20(raw, get_modifier(s, weapon.stat)),
                          s.current_enemy.ac)
        THEN DiceSums(crit_dice(weapon.damage_dice[1], raw = 20),
                      weapon.damage_dice[2])
        ELSE {0}

SneakRolls(s, use_sneak_attack, raw) ==
    IF PlayerDamageRolls(s, raw) # {0} /\ sneak_applies(s, use_sneak_attack)
    THEN DiceSums(2, 6) ELSE {0}

EnemyDamageRolls(s, raw) ==
    IF /\ s.current_enemy # None
       /\ attack_hits(raw, roll_d20(raw, s.current_enemy.attack_bonus), get_ac(s))
    THEN DiceSums(crit_dice(s.current_enemy.damage_dice[1], raw = 20),
                  s.current_enemy.damage_dice[2])
    ELSE {0}

\* every (d20, damage total, sneak total) a player attack can roll
PlayerRolls(s, use_sneak_attack) ==
    UNION {{<<raw, dice_total, sneak_total>> :
                dice_total \in PlayerDamageRolls(s, raw),
                sneak_total \in SneakRolls(s, use_sneak_attack, raw)} :
           raw \in D20}

\* every (d20, damage total) an enemy attack can roll
EnemyRolls(s) ==
    UNION {{<<raw, dice_total>> : dice_total \in EnemyDamageRolls(s, raw)} :
           raw \in D20}

\* the guard of use_class_ability: no use is left
no_ability_uses_never(s) == FALSE
no_ability_uses(s) == s.ability_uses <= 0

\* use_class_ability.  roll is the 1d10 of Second Wind or the 3d6 of Fireball.
use_class_ability(s, roll) ==
    IF no_ability_uses(s) THEN [state |-> s, success |-> FALSE, value |-> 0]
    ELSE
      LET ability == get_ability_info(s)
          used == use_ability(s)
      IN  CASE ability.effect = "heal" ->
                 [state |-> heal(used, roll + 2), success |-> TRUE,
                  value |-> heal_actual(used, roll + 2)]
            [] ability.effect = "direct_damage" ->
                 [state |-> IF used.current_enemy # None
                            THEN [used EXCEPT !.current_enemy.hp = @ - roll]
                            ELSE used,
                  success |-> TRUE, value |-> roll]
            [] ability.effect = "damage_boost" ->
                 [state |-> [used EXCEPT !.sneak_attack_available = TRUE,
                                         !.ability_uses = @ + 1],
                  success |-> TRUE, value |-> 0]
            [] OTHER -> [state |-> used, success |-> FALSE, value |-> 0]

\* the dice use_class_ability rolls
AbilityRolls(s) ==
    IF no_ability_uses(s) THEN {0}
    ELSE CASE get_ability_info(s).effect = "heal" -> DiceSums(1, 10)
           [] get_ability_info(s).effect = "direct_damage" -> DiceSums(3, 6)
           [] OTHER -> {0}

\* attempt_flee: d20 + DEX modifier against DC 12
attempt_flee_keep_enemy(s, raw) ==
    IF roll_d20(raw, get_modifier(s, "DEX")) >= 12
    THEN [state |-> [s EXCEPT !.in_combat = FALSE,
                              !.sneak_attack_available = TRUE],
          success |-> TRUE]
    ELSE [state |-> s, success |-> FALSE]
attempt_flee(s, raw) ==
    IF roll_d20(raw, get_modifier(s, "DEX")) >= 12
    THEN [state |-> [s EXCEPT !.in_combat = FALSE,
                              !.current_enemy = None,
                              !.sneak_attack_available = TRUE],
          success |-> TRUE]
    ELSE [state |-> s, success |-> FALSE]

\* the combat flags check_combat_end clears on victory
clear_combat_keep_flag(s) ==
    [s EXCEPT !.current_enemy = None, !.sneak_attack_available = TRUE]
clear_combat(s) ==
    [s EXCEPT !.in_combat = FALSE,
              !.current_enemy = None,
              !.sneak_attack_available = TRUE]

\* the class's ability comes back at the end of a won combat
combat_cooldown_any(s) == TRUE
combat_cooldown(s) == get_ability_info(s).cooldown_type = "combat"

\* check_combat_end reaches its victory branch
victory_branch(s) ==
    /\ s.in_combat
    /\ ~is_dead(s)
    /\ s.current_enemy # None
    /\ s.current_enemy.hp <= 0

\* random.randint(low, high) raises ValueError on an empty range
randint_raises(low, high) == low > high

\* the loot of a victory: the items whose drop roll was below 0.3, in order
RECURSIVE Dropped(_, _, _)
Dropped(loot, drops, i) ==
    IF i > Len(loot) THEN <<>>
    ELSE (IF drops[i] THEN <<loot[i]>> ELSE <<>>) \o Dropped(loot, drops, i + 1)

RECURSIVE AddAll(_, _, _)
AddAll(s, items, i) ==
    IF i > Len(items) THEN s
    ELSE AddAll(add_to_inventory(s, items[i]), items, i + 1)

NoRewards == [gold |-> 0, xp |-> 0, loot |-> <<>>, empty |-> TRUE]

\* check_combat_end.  gold is the value randint drew in the enemy's gold_drop
\* range, drops[i] whether the roll of the i-th loot entry was below 0.3.
\* raised: the call ended in an exception instead of returning.
check_combat_end(s, gold, drops) ==
    IF ~s.in_combat
    THEN [state |-> s, ended |-> TRUE, result |-> "fled", rewards |-> NoRewards,
          raised |-> FALSE]
    ELSE IF is_dead(s)
    THEN [state |-> s, ended |-> TRUE, result |-> "defeat", rewards |-> NoRewards,
          raised |-> FALSE]
    ELSE IF s.current_enemy # None /\ s.current_enemy.hp <= 0
    THEN
      LET enemy == s.current_enemy
          loot == Dropped(enemy.loot, drops, 1)
          paid == AddAll(add_gold(s, gold), loot, 1)
      IN  IF randint_raises(enemy.gold_drop[1], enemy.gold_drop[2])
          THEN [state |-> s, ended |-> FALSE, result |-> "ValueError",
                rewards |-> NoRewards, raised |-> TRUE]
          ELSE [state |-> [clear_combat(paid) EXCEPT
                              !.ability_uses =
                                  IF combat_cooldown(s)
                                  THEN s.ability_max_uses ELSE @],
                ended |-> TRUE, result |-> "victory",
                rewards |-> [gold |-> gold, xp |-> enemy.xp, loot |-> loot,
                             empty |-> FALSE],
                raised |-> FALSE]
    ELSE [state |-> s, ended |-> FALSE, result |-> "", rewards |-> NoRewards,
          raised |-> FALSE]

\* what check_combat_end draws: a gold value and one drop decision per loot entry
GoldRolls(s) ==
    IF victory_branch(s)
          /\ ~randint_raises(s.current_enemy.gold_drop[1], s.current_enemy.gold_drop[2])
    THEN s.current_enemy.gold_drop[1]..s.current_enemy.gold_drop[2]
    ELSE {0}

DropRolls(s) ==
    IF victory_branch(s)
          /\ ~randint_raises(s.current_enemy.gold_drop[1], s.current_enemy.gold_drop[2])
    THEN [1..Len(s.current_enemy.loot) -> BOOLEAN]
    ELSE {<<>>}

-----------------------------------------------------------------------------
(* Items *)

\* use_item.  roll is the total of the dice of the item's heal expression.
use_item(s, item_name, roll) ==
    IF ~has_item(s, item_name) THEN [state |-> s, success |-> FALSE]
    ELSE IF item_name \notin DOMAIN ITEMS THEN [state |-> s, success |-> FALSE]
    ELSE
      LET item == ITEMS[item_name]
      IN  IF item.type # "consumable" THEN [state |-> s, success |-> FALSE]
          ELSE IF item.effect = "heal"
          THEN [state |-> remove_from_inventory(heal(s, roll + item.flat), item_name),
                success |-> TRUE]
          ELSE IF item.effect = "restore_ability"
          THEN [state |-> remove_from_inventory(
                              restore_ability_use(s, item.flat), item_name),
                success |-> TRUE]
          ELSE [state |-> s, success |-> FALSE]

\* the dice use_item rolls
ItemRolls(s, item_name) ==
    IF /\ has_item(s, item_name)
       /\ item_name \in DOMAIN ITEMS
       /\ ITEMS[item_name].type = "consumable"
       /\ ITEMS[item_name].effect = "heal"
    THEN DiceSums(ITEMS[item_name].num, ITEMS[item_name].die)
    ELSE {0}

-----------------------------------------------------------------------------
(* Inputs *)

ClassInputs == {"fighter", "rogue", "mage"}

\* the four d6 rolled for each stat at character creation: a weak roll (7
\* before the class bonus), so that a hit on a well armoured enemy needs a 20
StatRollInputs ==
    {[stat \in {STATS[i] : i \in 1..4} |-> <<1, 2, 2, 3>>]}

\* enemy payloads the oracle returns: one within the documented ranges, one
\* with every number outside them, one weak enemy with a proper gold range
EnemyPayloads ==
    {[name |-> "Goblin", hp |-> 4, ac |-> 12, attack_bonus |-> 2,
      damage_dice |-> <<1, 4>>, damage_bonus |-> 0, xp |-> 25,
      gold_drop |-> <<3, 3>>, loot |-> <<"Health Potion">>],
     [name |-> "Wraith", hp |-> -3, ac |-> 99, attack_bonus |-> 50,
      damage_dice |-> <<0, 1>>, damage_bonus |-> 9, xp |-> 9999,
      gold_drop |-> <<-5, -3>>],
     [name |-> "Rat", hp |-> 1, ac |-> 8, attack_bonus |-> -2,
      damage_dice |-> <<1, 4>>, damage_bonus |-> 0, xp |-> 10,
      gold_drop |-> <<2, 4>>]}

\* item names a player may ask to use
ItemInputs == {"Health Potion", "Mana Potion", "Lockpicks", "Rope"}

-----------------------------------------------------------------------------
(* The engine, called in any order *)

\* no oracle request, no web session, no request and no terminal driver
InitAside ==
    /\ oracle = None
    /\ game_sessions = None
    /\ requests = None
    /\ driver = None

\* a process starts with an unseeded roller and no save file
InitPersist ==
    /\ dice = DiceRoller(None, 101)
    /\ disk = None
    /\ enemy_seq = "list"
    /\ twin = None
    /\ logged = <<>>
    /\ InitAside

\* the observable result of a call
Ret(op, success) ==
    [op |-> op, success |-> success, raw20 |-> FALSE,
     sneak |-> FALSE, critical |-> FALSE, result |-> "", rewards |-> NoRewards]

\* a player action may strike the enemy (bound on the enemy's negative hp)
Strikable(s) ==
    IF s.current_enemy = None THEN TRUE ELSE s.current_enemy.hp > -MaxOverkill

\* combat entry: app.api_choice and game.run_combat build the enemy and set
\* the combat flags
enter_combat(s, enemy_data) ==
    [s EXCEPT !.current_enemy = create_enemy_from_llm(enemy_data),
              !.in_combat = TRUE,
              !.sneak_attack_available = TRUE]

InitEngine ==
    /\ \E c \in ClassInputs, rolls \in StatRollInputs :
          gs = create_character(c, rolls)
    /\ last = Ret("create_character", TRUE)
    /\ outcome = ""
    /\ payload = None
    /\ built = None
    /\ InitPersist

StartCombat ==
    /\ gs.gold - get_class_data(gs).starting_gold <= MaxGoldWon
    /\ Len(gs.inventory) <= MaxInventory
    /\ \E p \in EnemyPayloads : gs' = enter_combat(gs, p)
    /\ last' = Ret("enter_combat", TRUE)
    /\ outcome' = ""
    /\ UNCHANGED <<payload, built, persist>>

\* the drivers request the sneak attack whenever a rogue has it available
PlayerAttack ==
    /\ Strikable(gs)
    /\ LET sneak == gs.player_class = "rogue" /\ gs.sneak_attack_available
       IN  \E r \in {player_attack(gs, sneak, x[1], x[2], x[3]) :
                        x \in PlayerRolls(gs, sneak)} :
              /\ gs' = r.state
              /\ last' = [Ret("player_attack", r.success) EXCEPT
                             !.raw20 = r.crit, !.sneak = r.sneak,
                             !.critical = r.critical]
    /\ UNCHANGED <<outcome, payload, built, persist>>

\* the drivers let the enemy attack only while its hp is above 0
EnemyAttack ==
    /\ gs.current_enemy # None
    /\ gs.current_enemy.hp > 0
    /\ \E r \in {enemy_attack(gs, x[1], x[2]) : x \in EnemyRolls(gs)} :
          /\ gs' = r.state
          /\ last' = [Ret("enemy_attack", r.success) EXCEPT
                         !.raw20 = r.crit, !.critical = r.critical]
    /\ UNCHANGED <<outcome, payload, built, persist>>

UseClassAbility ==
    /\ Strikable(gs)
    /\ \E r \in {use_class_ability(gs, roll) : roll \in AbilityRolls(gs)} :
          /\ gs' = r.state
          /\ last' = Ret("use_class_ability", r.success)
    /\ UNCHANGED <<outcome, payload, built, persist>>

UseItem ==
    /\ \E r \in UNION {{use_item(gs, item_name, roll) :
                           roll \in ItemRolls(gs, item_name)} :
                       item_name \in ItemInputs} :
          /\ gs' = r.state
          /\ last' = Ret("use_item", r.success)
    /\ UNCHANGED <<outcome, payload, built, persist>>

Rest ==
    /\ gs' = rest(gs)
    /\ last' = Ret("rest", TRUE)
    /\ UNCHANGED <<outcome, payload, built, persist>>

AttemptFlee ==
    /\ \E r \in {attempt_flee(gs, raw) : raw \in D20} :
          /\ gs' = r.state
          /\ last' = Ret("attempt_flee", r.success)
          /\ outcome' = IF r.success /\ gs.in_combat THEN "fled" ELSE outcome
    /\ UNCHANGED <<payload, built, persist>>

CheckCombatEnd ==
    /\ \E gold \in GoldRolls(gs) :
       \E drops \in DropRolls(gs) :
          LET r == check_combat_end(gs, gold, drops)
          IN  /\ gs' = r.state
              /\ last' = [Ret("check_combat_end", ~r.raised) EXCEPT
                             !.result = r.result, !.rewards = r.rewards]
              /\ outcome' = IF gs.in_combat /\ r.ended THEN r.result ELSE outcome
    /\ UNCHANGED <<payload, built, persist>>

NextEngine ==
    \/ StartCombat
    \/ PlayerAttack
    \/ EnemyAttack
    \/ UseClassAbility
    \/ UseItem
    \/ Rest
    \/ AttemptFlee
    \/ CheckCombatEnd

SpecEngine == InitEngine /\ [][NextEngine]_vars

-----------------------------------------------------------------------------
(* The web session: app.py's handlers on the session's GameState *)

\* what the oracle's generate_choice_result may return (the fields the
\* handler reads to change the game state)
ChoiceResults ==
    {[items_found |-> <<>>, gold_found |-> 0, triggers_combat |-> FALSE,
      enemy |-> None]}
    \cup {[items_found |-> <<>>, gold_found |-> 0, triggers_combat |-> TRUE,
           enemy |-> p] : p \in EnemyPayloads}

CombatActions == {"attack", "ability", "item", "flee"}

\* api_choice after the rest branch: rewards, then the combat trigger
api_choice(s, result) ==
    LET found == AddAll(s, result.items_found, 1)
        paid == IF result.gold_found > 0 THEN add_gold(found, result.gold_found)
                ELSE found
    IN  IF result.triggers_combat /\ result.enemy # None
        THEN [state |-> enter_combat(paid, result.enemy), combat |-> TRUE]
        ELSE [state |-> paid, combat |-> FALSE]

\* api_combat_action, the player's part: the state after the chosen action and
\* whether the handler returns at once because the flee succeeded
PlayerActionResults(s, action, item_name) ==
    CASE action = "attack" ->
           LET sneak == s.player_class = "rogue" /\ s.sneak_attack_available
           IN  {[state |-> r.state, fled |-> FALSE] :
                   r \in {player_attack(s, sneak, x[1], x[2], x[3]) :
                             x \in PlayerRolls(s, sneak)}}
      [] action = "ability" ->
           {[state |-> r.state, fled |-> FALSE] :
               r \in {use_class_ability(s, roll) : roll \in AbilityRolls(s)}}
      [] action = "item" ->
           {[state |-> r.state, fled |-> FALSE] :
               r \in {use_item(s, item_name, roll) :
                         roll \in ItemRolls(s, item_name)}}
      [] action = "flee" ->
           {[state |-> r.state, fled |-> r.success] :
               r \in {attempt_flee(s, raw) : raw \in D20}}

\* api_combat_action's enemy turn with an enemy that attacks whatever its hp
EnemyTurnResults_relentless(s) ==
    {IF is_dead(s2)
     THEN [state |-> [s2 EXCEPT !.game_over = TRUE, !.ending = "death"],
           result |-> "defeat", rewards |-> NoRewards,
           enemy_attacks |-> 1, enemy_hp |-> s.current_enemy.hp]
     ELSE [state |-> s2, result |-> "continues", rewards |-> NoRewards,
           enemy_attacks |-> 1, enemy_hp |-> s.current_enemy.hp] :
     s2 \in {enemy_attack(s, x[1], x[2]).state : x \in EnemyRolls(s)}}

\* api_combat_action, the enemy's turn and the death check.  enemy_hp is the
\* enemy's hp the handler reads after the player's action, enemy_attacks the
\* number of enemy_attack calls it makes.
EnemyTurnResults(s) ==
    LET acts == s.current_enemy.hp > 0
        after == IF acts
                 THEN {enemy_attack(s, x[1], x[2]).state : x \in EnemyRolls(s)}
                 ELSE {s}
    IN  {IF is_dead(s2)
         THEN [state |-> [s2 EXCEPT !.game_over = TRUE, !.ending = "death"],
               result |-> "defeat", rewards |-> NoRewards,
               enemy_attacks |-> IF acts THEN 1 ELSE 0,
               enemy_hp |-> s.current_enemy.hp]
         ELSE [state |-> s2, result |-> "continues", rewards |-> NoRewards,
               enemy_attacks |-> IF acts THEN 1 ELSE 0,
               enemy_hp |-> s.current_enemy.hp] :
         s2 \in after}

\* api_combat_action from the combat-end check on.  An exception leaves the
\* handler with the state as mutated so far (the session holds the object).
\* The handler returns before the enemy's turn on a successful flee, on an
\* exception and on a victory (enemy_hp 0: not read).
AfterPlayerAction(p) ==
    IF p.fled
    THEN {[state |-> p.state, result |-> "fled", rewards |-> NoRewards,
           enemy_attacks |-> 0, enemy_hp |-> 0]}
    ELSE UNION {
           IF c.raised \/ (c.state.current_enemy = None /\ c.result # "victory")
           THEN {[state |-> c.state, result |-> "error", rewards |-> NoRewards,
                  enemy_attacks |-> 0, enemy_hp |-> 0]}
           ELSE IF c.ended /\ c.result = "victory"
           THEN {[state |-> c.state, result |-> "victory", rewards |-> c.rewards,
                  enemy_attacks |-> 0, enemy_hp |-> 0]}
           ELSE EnemyTurnResults(c.state) :
           c \in {check_combat_end(p.state, gold, drops) :
                     gold \in GoldRolls(p.state), drops \in DropRolls(p.state)}}

\* api_combat_action
api_combat_action(s, action, item_name) ==
    UNION {AfterPlayerAction(p) : p \in PlayerActionResults(s, action, item_name)}

Init ==
    /\ \E c \in ClassInputs, rolls \in StatRollInputs :
          gs = create_character(c, rolls)
    /\ last = Ret("api_new_game", TRUE)
    /\ outcome = ""
    /\ payload = None
    /\ built = None
    /\ InitPersist

ApiNewGame ==
    /\ \E c \in ClassInputs, rolls \in StatRollInputs :
          gs' = create_character(c, rolls)
    /\ last' = Ret("api_new_game", TRUE)
    /\ outcome' = ""
    /\ UNCHANGED <<payload, built, persist>>

ApiChoiceRest ==
    /\ gs' = rest(gs)
    /\ last' = Ret("api_choice", TRUE)
    /\ UNCHANGED <<outcome, payload, built, persist>>

ApiChoice ==
    /\ gs.gold - get_class_data(gs).starting_gold <= MaxGoldWon
    /\ Len(gs.inventory) <= MaxInventory
    /\ \E result \in ChoiceResults :
          LET r == api_choice(gs, result)
          IN  /\ gs' = r.state
              /\ last' = [Ret("api_choice", TRUE) EXCEPT
                             !.result = IF r.combat THEN "combat" ELSE ""]
              /\ outcome' = IF r.combat THEN "" ELSE outcome
    /\ UNCHANGED <<payload, built, persist>>

\* without a session in combat the handler answers 400 and changes nothing
ApiCombatActionRejected ==
    /\ ~gs.in_combat
    /\ last' = [Ret("api_combat_action", FALSE) EXCEPT !.result = "not in combat"]
    /\ UNCHANGED <<gs, outcome, payload, built, persist>>

ApiCombatAction ==
    /\ gs.in_combat
    /\ \E action \in CombatActions, item_name \in ItemInputs :
          /\ action # "item" => item_name = "Health Potion"
          /\ action \in {"attack", "ability"} => Strikable(gs)
          /\ \E r \in api_combat_action(gs, action, item_name) :
                /\ gs' = r.state
                /\ last' = [Ret("api_combat_action", r.result # "error") EXCEPT
                               !.result = r.result, !.rewards = r.rewards]
                            @@ [enemy_attacks |-> r.enemy_attacks,
                                enemy_hp |-> r.enemy_hp]
                /\ outcome' = IF r.result \in {"victory", "defeat", "fled"}
                              THEN r.result ELSE outcome
    /\ UNCHANGED <<payload, built, persist>>

Next ==
    \/ ApiNewGame
    \/ ApiChoiceRest
    \/ ApiChoice
    \/ ApiCombatActionRejected
    \/ ApiCombatAction

Spec == Init /\ [][Next]_vars

-----------------------------------------------------------------------------
(* The web session's story: turns, quests and the story log *)

\* turns taken in one game
MaxTurns == 2

\* quest_update payloads of generate_choice_result; the prompt asks for a
\* status of started, progressed or completed, and any key may be missing
QuestUpdates ==
    {[quest_id |-> "find_gem", status |-> "started"],
     [quest_id |-> "find_gem", status |-> "completed"],
     [quest_id |-> "main_quest", status |-> "completed"],
     [status |-> "completed"]}

\* the opening of generate_story_start, with or without a main quest hook
Openings ==
    {[main_quest_hook |-> [id |-> "main_quest"]],
     [main_quest_hook |-> [name |-> "The Missing Gem"]],
     [opening_text |-> "Your adventure begins..."]}

\* the enemy met in the story: one blow fells it, its bite takes 1 hp
StoryEnemies ==
    {[name |-> "Bat", hp |-> 1, ac |-> 8, attack_bonus |-> 2,
      damage_dice |-> <<1, 1>>, damage_bonus |-> 0, xp |-> 10,
      gold_drop |-> <<2, 2>>]}

\* results of generate_choice_result in the story
StoryResults ==
    {[items_found |-> <<>>, gold_found |-> 0, triggers_combat |-> FALSE,
      enemy |-> None, quest_update |-> None]}
    \cup {[items_found |-> <<>>, gold_found |-> 0, triggers_combat |-> FALSE,
           enemy |-> None, quest_update |-> q] : q \in QuestUpdates}
    \cup {[items_found |-> <<>>, gold_found |-> 0, triggers_combat |-> TRUE,
           enemy |-> p, quest_update |-> None] :
             p \in StoryEnemies}

\* api_choice, the quest update: the record is stored with the status the
\* oracle gave, and the quest is completed on the status "completed"
process_quest_update(s, qu) ==
    IF qu = None THEN s
    ELSE LET added == add_quest(s, Get(qu, "quest_id", "side_quest"),
                                [status |-> Get(qu, "status", "active")])
         IN  IF Get(qu, "status", "") = "completed" /\ "quest_id" \in DOMAIN qu
             THEN complete_quest(added, qu.quest_id)
             ELSE added

\* api_new_game: the character, the opening's quest and the first log entry
api_new_game(class_name, rolls, opening) ==
    LET state == create_character(class_name, rolls)
        quested == IF "main_quest_hook" \in DOMAIN opening
                   THEN add_quest(state,
                                  Get(opening.main_quest_hook, "id", "main_quest"),
                                  [status |-> "active"])
                   ELSE state
    IN  log_event(quested, <<"Adventure begins at", "The Rusty Tankard">>)

\* api_choice, the whole handler: the turn counter, the rest branch, else the
\* rewards, the quest update, the log entry and the combat trigger (which
\* touches none of the fields the quest update and the log entry write)
turn_taken(s) == [s EXCEPT !.turn_count = @ + 1]
api_choice_request(s, choice, result) ==
    IF choice.type = "rest"
    THEN [state |-> log_event(rest(turn_taken(s)), <<"Rested and recovered">>),
          combat |-> FALSE]
    ELSE LET r == api_choice(turn_taken(s), result)
         IN  [r EXCEPT !.state = log_event(
                                     process_quest_update(@, result.quest_update),
                                     <<choice.text>>)]

\* api_combat_action, the whole handler: a successful flee and a victory are
\* logged with the enemy's name
api_combat_action_request(s, action, item_name) ==
    {[r EXCEPT !.state =
          IF r.result = "fled"
          THEN log_event(@, <<"Fled from", s.current_enemy.name>>)
          ELSE IF r.result = "victory"
          THEN log_event(@, <<"Defeated", s.current_enemy.name>>)
          ELSE @] :
       r \in api_combat_action(s, action, item_name)}

\* the choices a client sends
ChoiceInputs ==
    {[type |-> "rest", text |-> "Rest"], [type |-> "explore", text |-> "continue"]}

\* the observable result of a story request: the quest update it carried
StoryRet(op, success, result, qu) ==
    [Ret(op, success) EXCEPT !.result = result] @@ [quest_update |-> qu]

InitStory ==
    /\ \E rolls \in StatRollInputs, opening \in Openings :
          gs = api_new_game("fighter", rolls, opening)
    /\ last = StoryRet("api_new_game", TRUE, "", None)
    /\ outcome = ""
    /\ payload = None
    /\ built = None
    /\ InitPersist

StoryNewGame ==
    /\ \E rolls \in StatRollInputs, opening \in Openings :
          gs' = api_new_game("fighter", rolls, opening)
    /\ last' = StoryRet("api_new_game", TRUE, "", None)
    /\ outcome' = ""
    /\ UNCHANGED <<payload, built, persist>>

StoryChoice ==
    /\ gs.turn_count < MaxTurns
    /\ \E choice \in ChoiceInputs, result \in StoryResults :
          LET r == api_choice_request(gs, choice, result)
          IN  /\ gs' = r.state
              /\ last' = StoryRet("api_choice", TRUE,
                                  IF r.combat THEN "combat" ELSE "",
                                  IF choice.type = "rest" THEN None
                                  ELSE result.quest_update)
              /\ outcome' = IF r.combat THEN "" ELSE outcome
    /\ UNCHANGED <<payload, built, persist>>

StoryCombatActionRejected ==
    /\ ~gs.in_combat
    /\ last' = StoryRet("api_combat_action", FALSE, "not in combat", None)
    /\ UNCHANGED <<gs, outcome, payload, built, persist>>

StoryCombatAction ==
    /\ gs.in_combat
    /\ \E action \in CombatActions :
          /\ action \in {"attack", "ability"} => Strikable(gs)
          /\ \E r \in api_combat_action_request(gs, action, "Health Potion") :
                /\ gs' = r.state
                /\ last' = StoryRet("api_combat_action", r.result # "error",
                                    r.result, None)
                /\ outcome' = IF r.result \in {"victory", "defeat", "fled"}
                              THEN r.result ELSE outcome
    /\ UNCHANGED <<payload, built, persist>>

NextStory ==
    \/ StoryNewGame
    \/ StoryChoice
    \/ StoryCombatActionRejected
    \/ StoryCombatAction

SpecStory == InitStory /\ [][NextStory]_vars

-----------------------------------------------------------------------------
(* The story log, one event after another *)

\* events logged in one run
MaxEvents == 11

\* event strings handed to log_event
EventInputs == {<<"Rested and recovered">>, <<"continue">>}

InitLog ==
    /\ \E rolls \in StatRollInputs : gs = create_character("fighter", rolls)
    /\ last = Ret("create_character", TRUE)
    /\ outcome = ""
    /\ payload = None
    /\ built = None
    /\ InitPersist

LogEvent ==
    /\ Len(logged) < MaxEvents
    /\ \E event \in EventInputs :
          /\ gs' = log_event(gs, event)
          /\ logged' = Append(logged, event)
    /\ last' = Ret("log_event", TRUE)
    /\ UNCHANGED <<outcome, payload, built, dice, disk, enemy_seq, twin, aside>>

NextLog == LogEvent

SpecLog == InitLog /\ [][NextLog]_vars

-----------------------------------------------------------------------------
(* The purse: every way the gold changes *)

\* amounts handed to add_gold
GoldAmounts == {-1000, -7, 6}

\* gold the oracle reports as found
GoldFound == {-5, 5}

PurseAddGold ==
    /\ \E amount \in GoldAmounts :
          /\ amount > 0 => gs.gold - get_class_data(gs).starting_gold <= MaxGoldWon
          /\ gs' = add_gold(gs, amount)
          /\ last' = [Ret("add_gold", TRUE) EXCEPT
                         !.result = IF gs.gold + amount < 0 THEN "below zero"
                                    ELSE ""]
    /\ UNCHANGED <<outcome, payload, built, persist>>

PurseChoice ==
    /\ gs.gold - get_class_data(gs).starting_gold <= MaxGoldWon
    /\ \E g \in GoldFound :
          LET r == api_choice(gs, [items_found |-> <<>>, gold_found |-> g,
                                   triggers_combat |-> FALSE, enemy |-> None])
          IN  /\ gs' = r.state
              /\ last' = [Ret("api_choice", TRUE) EXCEPT
                             !.result = IF g > 0 THEN "gold found" ELSE ""]
    /\ UNCHANGED <<outcome, payload, built, persist>>

NextPurse ==
    \/ PurseAddGold
    \/ PurseChoice
    \/ StartCombat
    \/ PlayerAttack
    \/ CheckCombatEnd

SpecPurse == InitEngine /\ [][NextPurse]_vars

-----------------------------------------------------------------------------
(* The narrative oracle: DungeonMaster._call_with_retry on OpenRouterClient.call *)

\* DungeonMaster.retry_count and DungeonMaster.fallback_enabled
retry_count == 2
fallback_enabled == TRUE

\* the generate_ methods, each with a static fallback payload of its own
CallTypes ==
    {"story_start", "location", "choice_result", "combat_narration", "enemy",
     "ending"}
Fallback(call) == Some([fallback_of |-> call])

\* what the network answers to one attempt: a message whose content is a JSON
\* object, a JSON list, the empty object or no JSON at all; a reply without
\* choices; an HTTP error with a readable body; no connection; a timeout
\* while reading; an HTTP error whose body is not UTF-8
Replies ==
    {"json", "json_list", "empty_json", "no_json", "no_choices", "http_error",
     "url_error", "timeout", "http_error_bad_body"}

\* what _parse_json_response made of a message's content
Parsed(value) == [parsed |-> value]

\* the LLMResponse of a call
LLMResponse(success, content, error) ==
    [raised |-> FALSE, success |-> success, content |-> content, error |-> error]

\* OpenRouterClient.call with an API key.  The three except clauses turn what
\* the try block raises into a failed LLMResponse; the HTTPError clause itself
\* decodes the error body, and what that raises leaves the method.
client_call(reply) ==
    CASE reply = "json" -> LLMResponse(TRUE, Some(Parsed("object")), None)
      [] reply = "json_list" -> LLMResponse(TRUE, Some(Parsed("list")), None)
      [] reply = "empty_json" -> LLMResponse(TRUE, Some(Parsed("empty")), None)
      [] reply = "no_json" -> LLMResponse(TRUE, None, None)
      [] reply = "no_choices" -> LLMResponse(FALSE, None, Some("Unexpected error"))
      [] reply = "http_error" -> LLMResponse(FALSE, None, Some("HTTP"))
      [] reply = "url_error" -> LLMResponse(FALSE, None, Some("Connection error"))
      [] reply = "timeout" -> LLMResponse(FALSE, None, Some("Unexpected error"))
      [] reply = "http_error_bad_body" ->
           [raised |-> TRUE, success |-> FALSE, content |-> None,
            error |-> Some("UnicodeDecodeError")]

\* Python's truth value of a response's content or of a fallback
Truthy(content) ==
    IF content = None THEN FALSE ELSE content.some # Parsed("empty")

\* a request before its first attempt
NewRequest(call) ==
    [call |-> call, attempt |-> 0, status |-> "calling", result |-> None,
     asked |-> <<>>]

\* _call_with_retry, one pass of its loop and what follows the last pass
call_with_retry(o, reply) ==
    LET response == client_call(reply)
        made == [o EXCEPT !.attempt = @ + 1, !.asked = Append(@, reply)]
    IN  IF response.raised
        THEN [made EXCEPT !.status = "raised"]
        ELSE IF response.success /\ Truthy(response.content)
        THEN [made EXCEPT !.status = "returned",
                          !.result = [success |-> TRUE,
                                      content |-> response.content,
                                      error |-> None]]
        ELSE IF made.attempt < retry_count + 1
        THEN made
        ELSE [made EXCEPT !.status = "returned",
                          !.result = [success |-> FALSE,
                                      content |-> IF /\ fallback_enabled
                                                     /\ Truthy(Fallback(o.call))
                                                  THEN Fallback(o.call)
                                                  ELSE Some(Parsed("empty")),
                                      error |-> response.error]]

InitOracle ==
    /\ InitEngine
    /\ gs.player_class = "fighter"

\* a generate_ method hands its prompt and its fallback to _call_with_retry
OracleRequest ==
    /\ IF oracle = None THEN TRUE ELSE oracle.status # "calling"
    /\ \E call \in CallTypes : oracle' = NewRequest(call)
    /\ last' = Ret("generate", TRUE)
    /\ UNCHANGED <<gs, outcome, payload, built, dice, disk, enemy_seq, twin,
                   logged, game_sessions, requests, driver>>

OracleAttempt ==
    /\ oracle # None
    /\ oracle.status = "calling"
    /\ \E reply \in Replies : oracle' = call_with_retry(oracle, reply)
    /\ last' = Ret("_call_with_retry", TRUE)
    /\ UNCHANGED <<gs, outcome, payload, built, dice, disk, enemy_seq, twin,
                   logged, game_sessions, requests, driver>>

NextOracle ==
    \/ OracleRequest
    \/ OracleAttempt

SpecOracle == InitOracle /\ [][NextOracle]_vars

-----------------------------------------------------------------------------
(* The character sheet: heal, take_damage, use_ability, use_item and the     *)
(* items a choice finds, in any order                                        *)

\* the largest small amount handed to heal and take_damage
MaxAmount == 2

\* amounts healed and dealt: the small ones and one beyond every max_hp
Amounts == (0..MaxAmount) \cup {50 * (MaxAmount + 1)}

\* items found beyond the size of the starting inventory
MaxFound == 1

\* items the oracle reports as found
FoundItems == {"Health Potion", "Mana Potion", "Chain Mail"}

\* items a player asks to use: consumables, a tool, an armor, a weapon (in
\* the inventory but not in ITEMS) and one that does not exist
SheetItems ==
    {"Health Potion", "Mana Potion", "Lockpicks", "Chain Mail", "Dagger", "Rope"}

\* the result of a call on the sheet, with its argument and returned number
SheetRet(op, success, arg, returned) ==
    Ret(op, success) @@ [arg |-> arg, returned |-> returned]

SheetHeal ==
    /\ \E n \in Amounts :
          /\ gs' = heal(gs, n)
          /\ last' = SheetRet("heal", TRUE, n, heal_actual(gs, n))
    /\ UNCHANGED <<outcome, payload, built, persist>>

SheetTakeDamage ==
    /\ \E n \in Amounts :
          /\ gs' = take_damage(gs, n)
          /\ last' = SheetRet("take_damage", TRUE, n, damage_actual(gs, n))
    /\ UNCHANGED <<outcome, payload, built, persist>>

SheetUseAbility ==
    /\ gs' = use_ability(gs)
    /\ last' = SheetRet("use_ability", gs.ability_uses > 0, 0, 0)
    /\ UNCHANGED <<outcome, payload, built, persist>>

SheetUseItem ==
    /\ \E item_name \in SheetItems :
       \E roll \in ItemRolls(gs, item_name) :
          LET r == use_item(gs, item_name, roll)
          IN  /\ gs' = r.state
              /\ last' = SheetRet("use_item", r.success, item_name, 0)
    /\ UNCHANGED <<outcome, payload, built, persist>>

\* api_choice with an item found
SheetFind ==
    /\ Len(gs.inventory) < Len(get_class_data(gs).starting_items) + MaxFound
    /\ \E item \in FoundItems :
          /\ gs' = api_choice(gs, [items_found |-> <<item>>, gold_found |-> 0,
                                   triggers_combat |-> FALSE,
                                   enemy |-> None]).state
          /\ last' = SheetRet("api_choice", TRUE, item, 0)
    /\ UNCHANGED <<outcome, payload, built, persist>>

NextSheet ==
    \/ SheetHeal
    \/ SheetTakeDamage
    \/ SheetUseAbility
    \/ SheetUseItem
    \/ SheetFind

SpecSheet == InitEngine /\ [][NextSheet]_vars

-----------------------------------------------------------------------------
(* SpecDamage: DiceRoller.roll_damage on every roll of a few dice *)

MaxDice == 2
DieSizes == {4, 6}
Modifiers == {-99, -1, 0, 2}

\* DiceRoller.roll: what num_dice dice of die_size sides can show
Rolls(num_dice, die_size) == [1..num_dice -> 1..die_size]

\* sum(rolls)
RECURSIVE SumRolls(_)
SumRolls(rolls) ==
    IF Len(rolls) = 0 THEN 0 ELSE rolls[1] + SumRolls(Tail(rolls))

RollDamage ==
    /\ \E num_dice \in 0..MaxDice, die_size \in DieSizes,
          modifier \in Modifiers :
          \E rolls \in Rolls(num_dice, die_size) :
             last' = Ret("roll_damage", TRUE)
                        @@ [rolls |-> rolls, modifier |-> modifier,
                            returned |-> roll_damage(SumRolls(rolls), modifier)]
    /\ UNCHANGED <<gs, outcome, payload, built, persist>>

NextDamage == RollDamage

SpecDamage == InitEngine /\ [][NextDamage]_vars

-----------------------------------------------------------------------------
(* create_enemy_from_llm on oracle payloads *)

\* a field the oracle may leave out: <<>> when absent, <<v>> when present
Opt(S) == {<<>>} \cup {<<v>> : v \in S}

\* the dict of the fields that are present
Dict(r) == [k \in {f \in DOMAIN r : r[f] # <<>>} |-> r[k][1]]

\* numbers below, inside and above the range lo..hi
Around(lo, hi) == {lo - Excess, hi + Excess}

GoldInputs == {-1 - Excess, -Excess, 2, 5}

PayloadInputs ==
    {Dict(r) : r \in
        [hp : Opt(Around(1, 100) \cup {7}),
         ac : Opt(Around(8, 20)),
         attack_bonus : Opt(Around(-2, 8)),
         damage_dice : Opt({<<7>>} \cup (Around(1, 4) \X Around(4, 12))),
         damage_bonus : Opt(Around(0, 5)),
         xp : Opt(Around(10, 500)),
         gold_drop : Opt({<<7>>} \cup (GoldInputs \X GoldInputs))]}

InitEnemy ==
    /\ payload \in PayloadInputs
    /\ built = None
    /\ gs = create_character("fighter", CHOOSE rolls \in StatRollInputs : TRUE)
    /\ last = Ret("create_character", TRUE)
    /\ outcome = ""
    /\ InitPersist

CreateEnemy ==
    /\ built = None
    /\ built' = create_enemy_from_llm(payload)
    /\ UNCHANGED <<gs, last, outcome, payload, persist>>

NextEnemy == CreateEnemy

SpecEnemy == InitEnemy /\ [][NextEnemy]_vars

-----------------------------------------------------------------------------
(* Save and load *)

SAVE_VERSION == "1.0"

\* the values random.randint(0, 999999) of get_seed may return
RandSeeds == 0..MaxRandSeed

\* DiceRoller.get_seed: self.seed if self.seed else random.randint(0, 999999).
\* A seed of None and a seed of 0 are both falsy.  drawn is the random value.
get_seed(d, drawn) ==
    IF d.seed = None THEN drawn
    ELSE IF d.seed.some = 0 THEN drawn
    ELSE d.seed.some

\* set_dice_seed: the global roller is replaced by DiceRoller(seed)
set_dice_seed_ignored(d, seed) == d
set_dice_seed(d, seed) == DiceRoller(Some(seed), 0)

\* asdict(state): the fields of the GameState as Python values.  The only
\* values whose Python type the model has to follow are the damage_dice and
\* gold_drop inside current_enemy: seq is "list" or "tuple".
asdict(s, seq) ==
    [fields |-> s, enemy_seq |-> IF s.current_enemy = None THEN "none" ELSE seq]

\* json.dump: lists and tuples are both written as JSON arrays
json_dump(v) ==
    [v EXCEPT !.enemy_seq = IF @ \in {"list", "tuple"} THEN "array" ELSE @]

\* json.load: a JSON array is read as a list
json_load(text) ==
    [text EXCEPT !.enemy_seq = IF @ = "array" THEN "list" ELSE @]

\* save_game: the document written to the file
save_game(s, seq, d, drawn, now) ==
    [version |-> SAVE_VERSION,
     timestamp |-> now,
     game_state |-> json_dump(asdict(s, seq)),
     rng_seed |-> get_seed(d, drawn)]

\* the version check of load_game
version_matches_any(file) == TRUE
version_matches(file) == file.version = SAVE_VERSION

\* a game_state section GameState(**state_data) raises on (a key that is no
\* field, a required field missing)
Unreadable == [unreadable |-> TRUE]

\* GameState(**state_data) returns a state
reconstructs(state_data) == state_data # Unreadable

\* load_game on the file's content, in a process whose roller is d.  The
\* roller is reseeded before the GameState is reconstructed; an exception of
\* the reconstruction is caught and reported as a failure.  Returns
\* the state (None on failure) and the process's roller after the call.
load_game(file, d) ==
    IF file = None
    THEN [state |-> None, dice |-> d, message |-> "Save file not found"]
    ELSE IF ~version_matches(file)
    THEN [state |-> None, dice |-> d, message |-> "Incompatible save version"]
    ELSE IF ~reconstructs(file.game_state)
    THEN [state |-> None, dice |-> set_dice_seed(d, file.rng_seed),
          message |-> "Failed to load"]
    ELSE [state |-> json_load(file.game_state),
          dice |-> set_dice_seed(d, file.rng_seed),
          message |-> "Game loaded"]

-----------------------------------------------------------------------------
(* The engine on a roller whose values are a function of stream and position *)

\* what player_attack draws: the d20, the damage dice of a hit, the 2d6 of a
\* sneak attack; count is how many values it takes from the roller
PlayerDraws(s, d, use_sneak_attack) ==
    LET raw == Draw(d, 0, 20)
        weapon == get_equipped_weapon_data(s)
        hit == PlayerDamageRolls(s, raw) # {0}
        nd == IF hit THEN crit_dice(weapon.damage_dice[1], raw = 20) ELSE 0
        ns == IF hit /\ sneak_applies(s, use_sneak_attack) THEN 2 ELSE 0
    IN  IF s.current_enemy = None
        THEN [raw |-> 0, dice_total |-> 0, sneak_total |-> 0, count |-> 0]
        ELSE [raw |-> raw,
              dice_total |-> SumDraws(d, 1, nd, weapon.damage_dice[2]),
              sneak_total |-> SumDraws(d, 1 + nd, ns, 6),
              count |-> 1 + nd + ns]

\* what enemy_attack draws
EnemyDraws(s, d) ==
    LET raw == Draw(d, 0, 20)
        hit == EnemyDamageRolls(s, raw) # {0}
        nd == IF hit THEN crit_dice(s.current_enemy.damage_dice[1], raw = 20)
              ELSE 0
    IN  IF s.current_enemy = None
        THEN [raw |-> 0, dice_total |-> 0, count |-> 0]
        ELSE [raw |-> raw,
              dice_total |-> SumDraws(d, 1, nd, s.current_enemy.damage_dice[2]),
              count |-> 1 + nd]

\* what use_class_ability draws: nothing without a use left, 1d10 for Second
\* Wind, 3d6 for Fireball, nothing for Sneak Attack
AbilityDraws(s, d) ==
    IF no_ability_uses(s) THEN [roll |-> 0, count |-> 0]
    ELSE CASE get_ability_info(s).effect = "heal" ->
                [roll |-> SumDraws(d, 0, 1, 10), count |-> 1]
           [] get_ability_info(s).effect = "direct_damage" ->
                [roll |-> SumDraws(d, 0, 3, 6), count |-> 3]
           [] OTHER -> [roll |-> 0, count |-> 0]

\* what check_combat_end draws on victory: randint over the gold range, then
\* one random() per loot entry, a drop when below 0.3
CheckDraws(s, d) ==
    IF ~victory_branch(s)
    THEN [gold |-> 0, drops |-> <<>>, count |-> 0]
    ELSE IF randint_raises(s.current_enemy.gold_drop[1],
                           s.current_enemy.gold_drop[2])
    THEN [gold |-> 0, drops |-> <<>>, count |-> 0]
    ELSE LET low == s.current_enemy.gold_drop[1]
             high == s.current_enemy.gold_drop[2]
             n == Len(s.current_enemy.loot)
         IN  [gold |-> low + Draw(d, 0, high - low + 1) - 1,
              drops |-> [i \in 1..n |-> Draw(d, i, 10) <= 3],
              count |-> 1 + n]

\* what use_item draws: the dice of a healing item
ItemDraws(s, d, item_name) ==
    IF ItemRolls(s, item_name) = {0} THEN [roll |-> 0, count |-> 0]
    ELSE [roll |-> SumDraws(d, 0, ITEMS[item_name].num, ITEMS[item_name].die),
          count |-> ITEMS[item_name].num]

\* the observable result of a call, with the values it drew from the roller
SRet(op, success, drawn) ==
    [op |-> op, success |-> success, raw20 |-> FALSE, sneak |-> FALSE,
     critical |-> FALSE, result |-> "", rewards |-> NoRewards, drawn |-> drawn]

\* One engine call in a process run = [gs, dice, enemy_seq]: the values are
\* taken from the process's roller, the roller moves on by what was drawn.
\* Enemy.from_dict turns the two sequences of the dict it is given into
\* tuples, in place; Enemy.to_dict builds lists.
engine_call(call, run) ==
    LET s == run.gs
        d == run.dice
        seq == run.enemy_seq
    IN  CASE call.op = "enter_combat" ->
               [gs |-> enter_combat(s, call.arg), dice |-> d, enemy_seq |-> "list",
                ret |-> SRet("enter_combat", TRUE, <<>>)]
          [] call.op = "player_attack" ->
               LET sneak == s.player_class = "rogue" /\ s.sneak_attack_available
                   x == PlayerDraws(s, d, sneak)
                   r == player_attack(s, sneak, x.raw, x.dice_total, x.sneak_total)
               IN  [gs |-> r.state, dice |-> Advance(d, x.count),
                    enemy_seq |-> IF s.current_enemy = None THEN seq
                                  ELSE IF r.success THEN "list" ELSE "tuple",
                    ret |-> [SRet("player_attack", r.success, x) EXCEPT
                                !.raw20 = r.crit, !.sneak = r.sneak]]
          [] call.op = "enemy_attack" ->
               LET x == EnemyDraws(s, d)
                   r == enemy_attack(s, x.raw, x.dice_total)
               IN  [gs |-> r.state, dice |-> Advance(d, x.count),
                    enemy_seq |-> IF s.current_enemy = None THEN seq ELSE "tuple",
                    ret |-> [SRet("enemy_attack", r.success, x) EXCEPT
                                !.raw20 = r.crit]]
          [] call.op = "use_class_ability" ->
               LET x == AbilityDraws(s, d)
                   r == use_class_ability(s, x.roll)
               IN  [gs |-> r.state, dice |-> Advance(d, x.count),
                    enemy_seq |-> IF /\ ~no_ability_uses(s)
                                     /\ get_ability_info(s).effect = "direct_damage"
                                     /\ s.current_enemy # None
                                  THEN "list" ELSE seq,
                    ret |-> SRet("use_class_ability", r.success, x)]
          [] call.op = "attempt_flee" ->
               LET raw == Draw(d, 0, 20)
                   r == attempt_flee(s, raw)
               IN  [gs |-> r.state, dice |-> Advance(d, 1), enemy_seq |-> seq,
                    ret |-> SRet("attempt_flee", r.success, <<raw>>)]
          [] call.op = "check_combat_end" ->
               LET x == CheckDraws(s, d)
                   r == check_combat_end(s, x.gold, x.drops)
               IN  [gs |-> r.state, dice |-> Advance(d, x.count),
                    enemy_seq |-> IF s.in_combat /\ ~is_dead(s)
                                     /\ s.current_enemy # None
                                  THEN "tuple" ELSE seq,
                    ret |-> [SRet("check_combat_end", ~r.raised, x) EXCEPT
                                !.result = r.result, !.rewards = r.rewards]]
          [] call.op = "use_item" ->
               LET x == ItemDraws(s, d, call.arg)
                   r == use_item(s, call.arg, x.roll)
               IN  [gs |-> r.state, dice |-> Advance(d, x.count), enemy_seq |-> seq,
                    ret |-> SRet("use_item", r.success, x)]
          [] call.op = "rest" ->
               [gs |-> rest(s), dice |-> d, enemy_seq |-> seq,
                ret |-> SRet("rest", TRUE, <<>>)]

Call(op, arg) == [op |-> op, arg |-> arg]

\* the calls a driver makes in the state of run (the bounds of the model
\* included)
Offered(call, run) ==
    LET s == run.gs
    IN  /\ run.dice.pos <= MaxDraws
        /\ CASE call.op = "enter_combat" ->
                  /\ ~s.in_combat
                  /\ s.gold - get_class_data(s).starting_gold <= MaxGoldWon
                  /\ Len(s.inventory) <= MaxInventory
             [] call.op \in {"player_attack", "use_class_ability"} ->
                  Strikable(s)
             [] call.op = "enemy_attack" ->
                  IF s.current_enemy = None THEN FALSE
                  ELSE s.current_enemy.hp > 0
             [] call.op = "attempt_flee" -> s.in_combat
             [] OTHER -> TRUE

-----------------------------------------------------------------------------
(* A session that saves and loads: combat on the process's roller,         *)
(* save_game, and load_game as app.api_load uses it                        *)

\* quest ids the oracle hands to add_quest
QuestInputs == {"main_quest"}

\* version strings of documents written by something else
OtherVersions == {"1.00"}

RunA == [gs |-> gs, dice |-> dice, enemy_seq |-> enemy_seq]

\* api_new_game: the character is created and the opening's quest is added
InitSave ==
    /\ \E c \in ClassInputs, rolls \in StatRollInputs, quest_id \in QuestInputs :
          gs = add_quest(create_character(c, rolls), quest_id,
                         [status |-> "active"])
    /\ dice = DiceRoller(None, 101)
    /\ disk = [file |-> None, clock |-> 0]
    /\ enemy_seq = "list"
    /\ twin = None
    /\ logged = <<>>
    /\ InitAside
    /\ last = SRet("create_character", TRUE, <<>>)
    /\ outcome = ""
    /\ payload = None
    /\ built = None

SvStep(call) ==
    /\ Offered(call, RunA)
    /\ LET r == engine_call(call, RunA)
       IN  /\ gs' = r.gs
           /\ dice' = r.dice
           /\ enemy_seq' = r.enemy_seq
           /\ last' = r.ret
    /\ UNCHANGED <<outcome, payload, built, disk, twin, logged, aside>>

SvEnterCombat == \E p \in EnemyPayloads : SvStep(Call("enter_combat", p))
SvPlayerAttack == SvStep(Call("player_attack", None))
SvEnemyAttack == SvStep(Call("enemy_attack", None))
SvUseClassAbility == SvStep(Call("use_class_ability", None))
SvAttemptFlee == SvStep(Call("attempt_flee", None))
SvCheckCombatEnd == SvStep(Call("check_combat_end", None))

\* api_save: save_game writes the document; the timestamp is the clock's value
SaveGame ==
    /\ disk.clock < MaxSaves
    /\ \E drawn \in RandSeeds :
          /\ disk' = [file |-> save_game(gs, enemy_seq, dice, drawn, disk.clock),
                      clock |-> disk.clock + 1]
          /\ last' = SRet("save_game", TRUE, <<drawn>>)
    /\ UNCHANGED <<gs, dice, enemy_seq, outcome, payload, built, twin, logged, aside>>

\* api_load: the session's state is replaced only when load_game returned one
LoadGame ==
    /\ LET r == load_game(disk.file, dice)
       IN  /\ dice' = r.dice
           /\ IF r.state = None
              THEN /\ UNCHANGED <<gs, enemy_seq>>
                   /\ last' = SRet("load_game", FALSE, <<>>)
              ELSE /\ gs' = r.state.fields
                   /\ enemy_seq' = IF r.state.enemy_seq = "none" THEN "list"
                                   ELSE r.state.enemy_seq
                   /\ last' = SRet("load_game", TRUE, <<>>)
    /\ UNCHANGED <<outcome, payload, built, disk, twin, logged, aside>>

\* the file is replaced by a document of another version
AlterFile ==
    /\ disk.file # None
    /\ \E v \in OtherVersions :
          disk' = [disk EXCEPT !.file = [@ EXCEPT !.version = v]]
    /\ last' = SRet("alter_file", TRUE, <<>>)
    /\ UNCHANGED <<gs, dice, enemy_seq, outcome, payload, built, twin, logged, aside>>

\* the file is removed
RemoveFile ==
    /\ disk.file # None
    /\ disk' = [disk EXCEPT !.file = None]
    /\ last' = SRet("remove_file", TRUE, <<>>)
    /\ UNCHANGED <<gs, dice, enemy_seq, outcome, payload, built, twin, logged, aside>>

NextSave ==
    \/ SvEnterCombat
    \/ SvPlayerAttack
    \/ SvEnemyAttack
    \/ SvUseClassAbility
    \/ SvAttemptFlee
    \/ SvCheckCombatEnd
    \/ SaveGame
    \/ LoadGame
    \/ AlterFile
    \/ RemoveFile

SpecSave == InitSave /\ [][NextSave]_vars

\* the file's game_state section is replaced by one that is no GameState
DamageFile ==
    /\ disk.file # None
    /\ disk' = [disk EXCEPT !.file = [@ EXCEPT !.game_state = Unreadable]]
    /\ last' = SRet("damage_file", TRUE, <<>>)
    /\ UNCHANGED <<gs, dice, enemy_seq, outcome, payload, built, twin, logged, aside>>

\* the saving session with files that something else has damaged
NextLoad ==
    \/ SvEnterCombat
    \/ SvPlayerAttack
    \/ SvEnemyAttack
    \/ SvUseClassAbility
    \/ SvAttemptFlee
    \/ SvCheckCombatEnd
    \/ SaveGame
    \/ LoadGame
    \/ AlterFile
    \/ RemoveFile
    \/ DamageFile

SpecLoad == InitSave /\ [][NextLoad]_vars

-----------------------------------------------------------------------------
(* The terminal driver: game.run_game and game.run_combat with the save and *)
(* load commands of game.get_choice                                         *)

\* run_game has created the character and added the opening's quest
InitCli ==
    /\ \E c \in ClassInputs, rolls \in StatRollInputs, quest_id \in QuestInputs :
          gs = add_quest(create_character(c, rolls), quest_id,
                         [status |-> "active"])
    /\ dice = DiceRoller(None, 101)
    /\ disk = [file |-> None, clock |-> 0]
    /\ enemy_seq = "list"
    /\ twin = None
    /\ logged = <<>>
    /\ oracle = None
    /\ game_sessions = None
    /\ requests = None
    /\ driver = "run_game"
    /\ last = SRet("create_character", TRUE, <<>>)
    /\ outcome = ""
    /\ payload = None
    /\ built = None

\* run_combat returns after a successful flee, after a combat end reported by
\* check_combat_end, after the player's death and when a call raised
leaves_combat(call, ret, s) ==
    \/ call.op = "attempt_flee" /\ ret.success
    \/ call.op = "check_combat_end" /\ (ret.result # "" \/ ~ret.success)
    \/ call.op = "enemy_attack" /\ is_dead(s)

\* run_game: a choice's result triggers combat and run_combat sets it up
CliEnterCombat ==
    /\ driver = "run_game"
    /\ ~gs.game_over
    /\ dice.pos <= MaxDraws
    /\ gs.gold - get_class_data(gs).starting_gold <= MaxGoldWon
    /\ Len(gs.inventory) <= MaxInventory
    /\ \E p \in EnemyPayloads :
          LET r == engine_call(Call("enter_combat", p), RunA)
          IN  /\ gs' = r.gs
              /\ dice' = r.dice
              /\ enemy_seq' = r.enemy_seq
              /\ last' = r.ret
    /\ driver' = "run_combat"
    /\ UNCHANGED <<outcome, payload, built, disk, twin, logged, oracle,
                   game_sessions, requests>>

\* run_combat: one engine call of a round; the death of the player ends the game
CliStep(call) ==
    /\ driver = "run_combat"
    /\ Offered(call, RunA)
    /\ LET r == engine_call(call, RunA)
       IN  /\ gs' = IF call.op = "enemy_attack" /\ is_dead(r.gs)
                    THEN [r.gs EXCEPT !.game_over = TRUE, !.ending = "death"]
                    ELSE r.gs
           /\ dice' = r.dice
           /\ enemy_seq' = r.enemy_seq
           /\ last' = r.ret
           /\ driver' = IF leaves_combat(call, r.ret, r.gs) THEN "run_game"
                        ELSE "run_combat"
    /\ UNCHANGED <<outcome, payload, built, disk, twin, logged, oracle,
                   game_sessions, requests>>

CliPlayerAttack == CliStep(Call("player_attack", None))
CliEnemyAttack == CliStep(Call("enemy_attack", None))
CliUseClassAbility == CliStep(Call("use_class_ability", None))
CliAttemptFlee == CliStep(Call("attempt_flee", None))
CliCheckCombatEnd == CliStep(Call("check_combat_end", None))

\* get_choice, "save": in exploration and in combat alike
CliSave ==
    /\ ~gs.game_over
    /\ disk.clock < MaxSaves
    /\ \E drawn \in RandSeeds :
          /\ disk' = [file |-> save_game(gs, enemy_seq, dice, drawn, disk.clock),
                      clock |-> disk.clock + 1]
          /\ last' = SRet("save_game", TRUE, <<drawn>>)
    /\ UNCHANGED <<gs, dice, enemy_seq, outcome, payload, built, twin, logged,
                   aside>>

\* get_choice, "load": load_game is called and, when it returned a state,
\* ("load", {"state": loaded}) goes to the caller.  run_game makes the loaded
\* state its state; run_combat returns False and the state is dropped.
get_choice_load(run, where, file) ==
    LET r == load_game(file, run.dice)
    IN  IF r.state = None
        THEN [gs |-> run.gs, dice |-> r.dice, enemy_seq |-> run.enemy_seq,
              driver |-> where, loaded |-> FALSE]
        ELSE IF where = "run_game"
        THEN [gs |-> r.state.fields, dice |-> r.dice,
              enemy_seq |-> IF r.state.enemy_seq = "none" THEN "list"
                            ELSE r.state.enemy_seq,
              driver |-> "run_game", loaded |-> TRUE]
        ELSE [gs |-> run.gs, dice |-> r.dice, enemy_seq |-> run.enemy_seq,
              driver |-> "run_game", loaded |-> TRUE]

CliLoad ==
    /\ ~gs.game_over
    /\ LET r == get_choice_load(RunA, driver, disk.file)
       IN  /\ gs' = r.gs
           /\ dice' = r.dice
           /\ enemy_seq' = r.enemy_seq
           /\ driver' = r.driver
           /\ last' = SRet("load_game", r.loaded, <<>>)
    /\ UNCHANGED <<outcome, payload, built, disk, twin, logged, oracle,
                   game_sessions, requests>>

NextCli ==
    \/ CliEnterCombat
    \/ CliPlayerAttack
    \/ CliEnemyAttack
    \/ CliUseClassAbility
    \/ CliAttemptFlee
    \/ CliCheckCombatEnd
    \/ CliSave
    \/ CliLoad

SpecCli == InitCli /\ [][NextCli]_vars

-----------------------------------------------------------------------------
(* Two web sessions in one server process: app.game_sessions holds a         *)
(* GameState for each, engine.dice is the one roller of the process          *)

SessionIds == {"a", "b"}

\* the roller the engine draws from while it serves a session: the module
\* global engine.dice, whichever the session
RollerOf(sid) == dice

\* get_game_state: the session's GameState, with the process's roller
RunOf(sid) ==
    [gs |-> game_sessions[sid].gs, dice |-> RollerOf(sid),
     enemy_seq |-> game_sessions[sid].enemy_seq]

\* the result of a call made for a session
SessionRet(sid, ret) == ret @@ [session |-> sid]

\* both sessions have started a game
InitSessions ==
    /\ \E rolls \in StatRollInputs, quest_id \in QuestInputs :
          /\ gs = add_quest(create_character("fighter", rolls), quest_id,
                            [status |-> "active"])
          /\ game_sessions = [sid \in SessionIds |->
                                 [gs |-> gs, enemy_seq |-> "list"]]
    /\ dice = DiceRoller(None, 101)
    /\ disk = [file |-> None, clock |-> 0]
    /\ enemy_seq = "list"
    /\ twin = None
    /\ logged = <<>>
    /\ oracle = None
    /\ requests = None
    /\ driver = None
    /\ last = SessionRet("a", SRet("api_new_game", TRUE, <<>>))
    /\ outcome = ""
    /\ payload = None
    /\ built = None

\* an engine call made by a handler for the session sid
SessionStep(sid, call) ==
    /\ Offered(call, RunOf(sid))
    /\ LET r == engine_call(call, RunOf(sid))
       IN  /\ game_sessions' = [game_sessions EXCEPT
                                   ![sid] = [gs |-> r.gs, enemy_seq |-> r.enemy_seq]]
           /\ dice' = r.dice
           /\ last' = SessionRet(sid, r.ret)
    /\ UNCHANGED <<gs, outcome, payload, built, disk, enemy_seq, twin, logged,
                   oracle, requests, driver>>

SessionEnterCombat ==
    \E sid \in SessionIds, p \in EnemyPayloads :
        SessionStep(sid, Call("enter_combat", p))
SessionPlayerAttack ==
    \E sid \in SessionIds : SessionStep(sid, Call("player_attack", None))
SessionAttemptFlee ==
    \E sid \in SessionIds : SessionStep(sid, Call("attempt_flee", None))

\* api_save for a session
SessionSave ==
    /\ disk.clock < MaxSaves
    /\ \E sid \in SessionIds, drawn \in RandSeeds :
          /\ disk' = [file |-> save_game(game_sessions[sid].gs,
                                         game_sessions[sid].enemy_seq,
                                         RollerOf(sid), drawn, disk.clock),
                      clock |-> disk.clock + 1]
          /\ last' = SessionRet(sid, SRet("save_game", TRUE, <<drawn>>))
    /\ UNCHANGED <<gs, dice, game_sessions, outcome, payload, built, enemy_seq,
                   twin, logged, oracle, requests, driver>>

\* api_load for a session: load_game seeds the process's roller, and
\* set_game_state stores the state it returned
SessionLoad ==
    /\ \E sid \in SessionIds :
          LET r == load_game(disk.file, RollerOf(sid))
          IN  /\ dice' = r.dice
              /\ IF r.state = None
                 THEN /\ UNCHANGED game_sessions
                      /\ last' = SessionRet(sid, SRet("load_game", FALSE, <<>>))
                 ELSE /\ game_sessions' =
                            [game_sessions EXCEPT
                                ![sid] = [gs |-> r.state.fields,
                                          enemy_seq |->
                                              IF r.state.enemy_seq = "none"
                                              THEN "list"
                                              ELSE r.state.enemy_seq]]
                      /\ last' = SessionRet(sid, SRet("load_game", TRUE, <<>>))
    /\ UNCHANGED <<gs, outcome, payload, built, disk, enemy_seq, twin, logged,
                   oracle, requests, driver>>

NextSessions ==
    \/ SessionEnterCombat
    \/ SessionPlayerAttack
    \/ SessionAttemptFlee
    \/ SessionSave
    \/ SessionLoad

SpecSessions == InitSessions /\ [][NextSessions]_vars

-----------------------------------------------------------------------------
(* One web session, two requests: the server started by app.run handles each *)
(* request in a thread of its own, and api_combat_action takes no lock, so   *)
(* a handler runs from one call to the next while another one may run too    *)

RequestIds == {1, 2}

\* where the handler of a request is: "idle" before it starts and after it
\* has answered, else the part of api_combat_action it runs next
Handler(pc) == [pc |-> pc]

\* the requests that are being handled
InFlight == {r \in RequestIds : requests[r].pc # "idle"}

InitRequests ==
    /\ \E rolls \in StatRollInputs, p \in StoryEnemies :
          gs = enter_combat(create_character("fighter", rolls), p)
    /\ requests = [r \in RequestIds |-> Handler("idle")]
    /\ last = Ret("api_choice", TRUE)
    /\ outcome = ""
    /\ payload = None
    /\ built = None
    /\ dice = DiceRoller(None, 101)
    /\ disk = None
    /\ enemy_seq = "list"
    /\ twin = None
    /\ logged = <<>>
    /\ oracle = None
    /\ game_sessions = None
    /\ driver = None

\* what a handler leaves alone
RequestFrame == <<outcome, payload, built, dice, disk, enemy_seq, twin, logged,
                  oracle, game_sessions, driver>>

\* api_choice for the session: a fight starts
RequestChoice ==
    /\ gs.gold - get_class_data(gs).starting_gold <= MaxGoldWon
    /\ Len(gs.inventory) <= MaxInventory
    /\ \E p \in StoryEnemies :
          gs' = api_choice(gs, [items_found |-> <<>>, gold_found |-> 0,
                                triggers_combat |-> TRUE, enemy |-> p]).state
    /\ last' = [Ret("api_choice", TRUE) EXCEPT !.result = "combat"]
    /\ UNCHANGED <<requests, RequestFrame>>

\* api_combat_action up to the player's action: the guard, then the action;
\* a successful flee is answered at once
RequestPlayerAction ==
    \E r \in RequestIds, action \in CombatActions :
        /\ requests[r].pc = "idle"
        /\ gs.in_combat
        /\ action \in {"attack", "ability"} => Strikable(gs)
        /\ \E p \in PlayerActionResults(gs, action, "Health Potion") :
              /\ gs' = p.state
              /\ requests' = [requests EXCEPT
                                 ![r] = Handler(IF p.fled THEN "idle" ELSE "check")]
              /\ last' = [Ret("api_combat_action", TRUE) EXCEPT
                             !.result = IF p.fled THEN "fled" ELSE "acted"]
        /\ UNCHANGED RequestFrame

\* api_combat_action, the combat-end check: a victory is answered at once, an
\* exception ends the handler
RequestCheckEnd ==
    \E r \in RequestIds :
        /\ requests[r].pc = "check"
        /\ \E gold \in GoldRolls(gs), drops \in DropRolls(gs) :
              LET c == check_combat_end(gs, gold, drops)
                  answered == c.raised \/ (c.ended /\ c.result = "victory")
              IN  /\ gs' = c.state
                  /\ requests' = [requests EXCEPT
                                     ![r] = Handler(IF answered THEN "idle"
                                                    ELSE "enemy")]
                  /\ last' = [Ret("api_combat_action", ~c.raised) EXCEPT
                                 !.result = IF c.raised THEN "error"
                                            ELSE IF answered THEN "victory"
                                            ELSE "checked",
                                 !.rewards = c.rewards]
        /\ UNCHANGED RequestFrame

\* api_combat_action, the enemy's turn and the death check; Enemy.from_dict
\* raises when the enemy is gone
RequestEnemyTurn ==
    \E r \in RequestIds :
        /\ requests[r].pc = "enemy"
        /\ IF gs.current_enemy = None
           THEN /\ gs' = gs
                /\ requests' = [requests EXCEPT ![r] = Handler("idle")]
                /\ last' = [Ret("api_combat_action", FALSE) EXCEPT
                               !.result = "error"]
           ELSE \E e \in EnemyTurnResults(gs) :
                   /\ gs' = e.state
                   /\ requests' = [requests EXCEPT
                                      ![r] = Handler(IF e.result = "defeat"
                                                     THEN "idle" ELSE "narrate")]
                   /\ last' = [Ret("api_combat_action", TRUE) EXCEPT
                                  !.result = e.result]
        /\ UNCHANGED RequestFrame

\* api_combat_action, the narration: the oracle is asked and the answer sent
RequestNarrate ==
    \E r \in RequestIds :
        /\ requests[r].pc = "narrate"
        /\ requests' = [requests EXCEPT ![r] = Handler("idle")]
        /\ last' = [Ret("api_combat_action", gs.current_enemy # None) EXCEPT
                       !.result = IF gs.current_enemy = None THEN "error"
                                  ELSE "continues"]
        /\ UNCHANGED <<gs, RequestFrame>>

NextRequests ==
    \/ RequestChoice
    \/ RequestPlayerAction
    \/ RequestCheckEnd
    \/ RequestEnemyTurn
    \/ RequestNarrate

SpecRequests == InitRequests /\ [][NextRequests]_vars

-----------------------------------------------------------------------------
(* Two processes that load the same save file and make the same calls *)

\* the calls of a run
Calls ==
    {Call("enter_combat", p) : p \in EnemyPayloads}
    \cup {Call(op, None) : op \in {"player_attack", "enemy_attack",
                                   "use_class_ability", "attempt_flee",
                                   "check_combat_end", "rest"}}
    \cup {Call("use_item", item_name) : item_name \in ItemInputs}

\* the save files the two processes may find
TwinFiles ==
    {save_game(create_character(c, rolls), "list", DiceRoller(None, 101), k, 0) :
        c \in ClassInputs, rolls \in StatRollInputs, k \in RandSeeds}

\* both processes have just loaded the file; before the load each had its own
\* unseeded roller
InitTwin ==
    /\ \E file \in TwinFiles :
          LET a == load_game(file, DiceRoller(None, 101))
              b == load_game(file, DiceRoller(None, 102))
          IN  /\ disk = [file |-> file, clock |-> 1]
              /\ gs = a.state.fields
              /\ dice = a.dice
              /\ twin = [gs |-> b.state.fields, dice |-> b.dice,
                         enemy_seq |-> "list",
                         ret |-> SRet("load_game", TRUE, <<>>)]
    /\ enemy_seq = "list"
    /\ logged = <<>>
    /\ InitAside
    /\ last = SRet("load_game", TRUE, <<>>)
    /\ outcome = ""
    /\ payload = None
    /\ built = None

\* the same call is made in both processes
TwinCall ==
    /\ \E call \in Calls :
          /\ Offered(call, RunA)
          /\ LET r == engine_call(call, RunA)
                 q == engine_call(call, twin)
             IN  /\ gs' = r.gs
                 /\ dice' = r.dice
                 /\ enemy_seq' = r.enemy_seq
                 /\ last' = r.ret
                 /\ twin' = q
    /\ UNCHANGED <<outcome, payload, built, disk, logged, aside>>

NextTwin == TwinCall

SpecTwin == InitTwin /\ [][NextTwin]_vars

-----------------------------------------------------------------------------
(* Properties *)

\* C1: in every state reachable after character creation by the engine's
\* calls, the player's hp is at least 0 and at most max_hp.
C1_HpBounds == 0 <= gs.hp /\ gs.hp <= gs.max_hp

\* an enemy hit took the player's last hit points
C1_Witness ==
    /\ last.op = "enemy_attack"
    /\ last.success
    /\ gs.hp = 0

\* C2: in every state of the session, current_enemy is set exactly when
\* in_combat is true.
C2_EnemyIffInCombat == (gs.current_enemy # None) <=> gs.in_combat

\* a flee succeeded: both fields were cleared together
C2_Witness ==
    /\ last.op = "api_combat_action"
    /\ last.result = "fled"
    /\ ~gs.in_combat
    /\ gs.current_enemy = None

\* C3: once an encounter has ended in victory, defeat or a flee, the session
\* is not in combat: in_combat is false and current_enemy is None.
C3_TerminalLeavesCombat ==
    outcome \in {"victory", "defeat", "fled"} =>
        ~gs.in_combat /\ gs.current_enemy = None

\* C4: whatever integers the oracle supplies or leaves out, the enemy built
\* has hp in 1..100, max_hp = hp, ac in 8..20, attack_bonus in -2..8, one to
\* four damage dice of size 4..12, damage_bonus in 0..5 and xp in 10..500.
C4_ClampedEnemy ==
    built # None =>
        /\ built.hp \in 1..100
        /\ built.max_hp = built.hp
        /\ built.ac \in 8..20
        /\ built.attack_bonus \in -2..8
        /\ built.damage_dice[1] \in 1..4
        /\ built.damage_dice[2] \in 4..12
        /\ built.damage_bonus \in 0..5
        /\ built.xp \in 10..500

\* an oversized hp, an undersized attack bonus and a missing ac were accepted
C4_Witness ==
    /\ built # None
    /\ "hp" \in DOMAIN payload
    /\ payload.hp > 100
    /\ built.hp = 100
    /\ "attack_bonus" \in DOMAIN payload
    /\ payload.attack_bonus < -2
    /\ built.attack_bonus = -2
    /\ "ac" \notin DOMAIN payload
    /\ built.ac = 12

\* C5: for every two-element gold_drop the oracle supplies, the enemy's
\* gold_drop (low, high) has low >= 0 and high >= low.
C5_GoldRange ==
    built # None =>
        /\ built.gold_drop[1] >= 0
        /\ built.gold_drop[2] >= built.gold_drop[1]

\* C6: in every reachable state 0 <= ability_uses <= ability_max_uses.
C6_AbilityUses == 0 <= gs.ability_uses /\ gs.ability_uses <= gs.ability_max_uses

\* a Mana Potion was drunk with every ability use still available
C6_Witness ==
    /\ last.op = "use_item"
    /\ last.success
    /\ gs.player_class = "mage"
    /\ ~has_item(gs, "Mana Potion")
    /\ has_item(gs, "Health Potion")
    /\ gs.hp = gs.max_hp
    /\ gs.ability_uses = gs.ability_max_uses
    /\ gs.gold = get_class_data(gs).starting_gold

\* C7: in player_attack and enemy_attack, whatever is rolled: a raw 1 misses
\* and changes nothing; a raw 20 hits and rolls twice the base dice count,
\* whatever the AC; any other raw value hits iff raw + modifier >= target AC.
C7_AttackRolls ==
    gs.current_enemy # None =>
        LET sneak == gs.player_class = "rogue" /\ gs.sneak_attack_available
            weapon == get_equipped_weapon_data(gs)
            enemy == gs.current_enemy
        IN  /\ \A x \in PlayerRolls(gs, sneak) :
                  LET r == player_attack(gs, sneak, x[1], x[2], x[3])
                  IN  CASE x[1] = 1 -> ~r.success /\ r.state = gs
                        [] x[1] = 20 ->
                              /\ r.success
                              /\ r.num_dice = 2 * weapon.damage_dice[1]
                              /\ x[2] \in DiceSums(2 * weapon.damage_dice[1],
                                                   weapon.damage_dice[2])
                        [] OTHER ->
                              r.success <=>
                                  x[1] + get_modifier(gs, weapon.stat) >= enemy.ac
            /\ \A x \in EnemyRolls(gs) :
                  LET r == enemy_attack(gs, x[1], x[2])
                  IN  CASE x[1] = 1 -> ~r.success /\ r.state = gs
                        [] x[1] = 20 ->
                              /\ r.success
                              /\ r.num_dice = 2 * enemy.damage_dice[1]
                              /\ x[2] \in DiceSums(2 * enemy.damage_dice[1],
                                                   enemy.damage_dice[2])
                        [] OTHER ->
                              r.success <=> x[1] + enemy.attack_bonus >= get_ac(gs)

\* the player rolled a 20 and hit an enemy whose AC the total did not reach
C7_Witness ==
    /\ last.op = "player_attack"
    /\ last.raw20
    /\ last.success
    /\ gs.current_enemy # None
    /\ 20 + get_modifier(gs, get_equipped_weapon_data(gs).stat) < gs.current_enemy.ac

\* C8: a rogue's successful attack includes the sneak attack dice exactly
\* when sneak_attack_available was true, and leaves it false; a miss leaves it
\* as it was; it becomes true again only by the ability, combat entry or
\* combat exit.
C8_SneakOnce ==
    [][/\ (last'.op = "player_attack" /\ gs.player_class = "rogue"
              /\ gs.current_enemy # None) =>
            IF last'.success
            THEN /\ last'.sneak = gs.sneak_attack_available
                 /\ ~gs'.sneak_attack_available
            ELSE gs'.sneak_attack_available = gs.sneak_attack_available
       /\ (~gs.sneak_attack_available /\ gs'.sneak_attack_available) =>
            last'.op \in {"use_class_ability", "enter_combat", "attempt_flee",
                          "check_combat_end"}]_vars

\* a rogue hit without the bonus: the window's sneak attack was already spent
C8_Witness ==
    /\ last.op = "player_attack"
    /\ last.success
    /\ ~last.sneak
    /\ gs.player_class = "rogue"
    /\ ~gs.sneak_attack_available

\* C9: check_combat_end in priority order: not in combat -> "fled" with empty
\* rewards; else player hp <= 0 -> "defeat" with no rewards, even if the enemy
\* is dead too; else enemy hp <= 0 -> "victory"; else combat continues and
\* nothing changes.
C9_PriorityOrder ==
    [][last'.op = "check_combat_end" =>
         IF ~gs.in_combat
         THEN last'.result = "fled" /\ last'.rewards.empty
         ELSE IF gs.hp <= 0
         THEN last'.result = "defeat" /\ last'.rewards.empty /\ gs' = gs
         ELSE IF gs.current_enemy # None /\ gs.current_enemy.hp <= 0
         THEN last'.result = "victory"
         ELSE last'.result = "" /\ gs' = gs]_vars

\* C10: once check_combat_end has returned "victory", a further call before a
\* new combat entry returns "fled" with empty rewards and leaves gold,
\* inventory and ability_uses as they were.
C10_RewardOnce ==
    [][(outcome = "victory" /\ last'.op = "check_combat_end") =>
         /\ last'.result = "fled"
         /\ last'.rewards.empty
         /\ gs'.gold = gs.gold
         /\ gs'.inventory = gs.inventory
         /\ gs'.ability_uses = gs.ability_uses]_vars

\* the check was repeated after a victory
C10_Witness ==
    /\ outcome = "victory"
    /\ last.op = "check_combat_end"
    /\ last.result = "fled"
    /\ gs.gold > get_class_data(gs).starting_gold

\* C11: on victory the gold granted lies in the enemy's gold_drop range, the
\* player's gold grows by exactly the amount reported in the rewards, and an
\* enemy with gold_drop [3,3] grants exactly 3.
C11_VictoryGold ==
    [][(last'.op = "check_combat_end" /\ last'.result = "victory") =>
         /\ gs.current_enemy # None
         /\ last'.rewards.gold >= gs.current_enemy.gold_drop[1]
         /\ last'.rewards.gold <= gs.current_enemy.gold_drop[2]
         /\ gs'.gold = gs.gold + last'.rewards.gold
         /\ (gs.current_enemy.gold_drop = <<3, 3>> => last'.rewards.gold = 3)]_vars

\* a victory over the enemy with gold_drop [2,4] paid the top of the range
C11_Witness ==
    /\ last.op = "check_combat_end"
    /\ last.result = "victory"
    /\ last.rewards.gold = 4
    /\ gs.gold = get_class_data(gs).starting_gold + 4

\* C12: a victory clears in_combat and current_enemy, sets
\* sneak_attack_available, and sets ability_uses to ability_max_uses exactly
\* for the rogue (cooldown "combat"); for fighter and mage it leaves
\* ability_uses as it was; a flee attempt never changes ability_uses.
C12_VictoryCooldown ==
    [][/\ (last'.op = "check_combat_end" /\ last'.result = "victory") =>
            /\ ~gs'.in_combat
            /\ gs'.current_enemy = None
            /\ gs'.sneak_attack_available
            /\ gs'.ability_uses = IF gs.player_class = "rogue"
                                  THEN gs.ability_max_uses
                                  ELSE gs.ability_uses
       /\ last'.op = "attempt_flee" => gs'.ability_uses = gs.ability_uses]_vars

\* a mage won a combat with a Fireball spent: the use did not come back
C12_Witness ==
    /\ last.op = "check_combat_end"
    /\ last.result = "victory"
    /\ gs.player_class = "mage"
    /\ gs.ability_uses < gs.ability_max_uses
    /\ gs.sneak_attack_available
    /\ ~gs.in_combat

\* C13: attempt_flee succeeds iff d20 + DEX modifier >= 12; a success clears
\* in_combat and current_enemy together, sets sneak_attack_available and
\* changes nothing else; a failure changes nothing.
C13_Flee ==
    \A raw \in D20 :
        LET r == attempt_flee(gs, raw)
        IN  /\ r.success <=> raw + gs.stats["DEX"].modifier >= 12
            /\ r.success =>
                  /\ ~r.state.in_combat
                  /\ r.state.current_enemy = None
                  /\ r.state.sneak_attack_available
                  /\ r.state = [gs EXCEPT !.in_combat = FALSE,
                                          !.current_enemy = None,
                                          !.sneak_attack_available = TRUE]
            /\ ~r.success => r.state = gs

\* a rogue whose sneak attack was spent escaped from a combat
C13_Witness ==
    /\ last.op = "attempt_flee"
    /\ last.success
    /\ outcome = "fled"
    /\ gs.player_class = "rogue"
    /\ ~gs.in_combat
    /\ gs.current_enemy = None

\* C14: rest sets hp to max_hp, sets ability_uses to ability_max_uses only for
\* the fighter (cooldown "rest"), and changes no other field.
C14_Rest ==
    [][last'.op = "rest" =>
         gs' = [gs EXCEPT !.hp = gs.max_hp,
                          !.ability_uses = IF gs.player_class = "fighter"
                                           THEN gs.ability_max_uses
                                           ELSE gs.ability_uses]]_vars

\* a mage rested with both Fireballs spent and did not get them back
C14_Witness ==
    /\ last.op = "rest"
    /\ gs.player_class = "mage"
    /\ gs.ability_uses = 0
    /\ gs.hp = gs.max_hp

\* C16: for a rogue with ability_uses > 0, use_class_ability succeeds, sets
\* sneak_attack_available and leaves ability_uses at its value before the
\* call, however often it is activated.
C16_SneakRefund ==
    [][(last'.op = "use_class_ability" /\ gs.player_class = "rogue"
           /\ gs.ability_uses > 0) =>
         /\ last'.success
         /\ gs' = [gs EXCEPT !.sneak_attack_available = TRUE]]_vars

\* a rogue who had spent the sneak attack in a combat activated the ability
C16_Witness ==
    /\ last.op = "use_class_ability"
    /\ last.success
    /\ gs.player_class = "rogue"
    /\ gs.in_combat
    /\ gs.sneak_attack_available
    /\ gs.ability_uses = gs.ability_max_uses
    /\ gs.current_enemy # None
    /\ gs.current_enemy.hp < gs.current_enemy.max_hp

\* C15: use_class_ability with ability_uses = 0 fails, leaves the whole game
\* state as it was and draws nothing from the roller.
C15_NoUsesNoChange ==
    [][(last'.op = "use_class_ability" /\ gs.ability_uses = 0) =>
         /\ ~last'.success
         /\ gs' = gs
         /\ enemy_seq' = enemy_seq
         /\ dice' = dice]_vars

\* a fighter in combat asked for Second Wind with the use already spent
C15_Witness ==
    /\ last.op = "use_class_ability"
    /\ ~last.success
    /\ gs.player_class = "fighter"
    /\ gs.ability_uses = 0
    /\ gs.in_combat
    /\ dice.pos > 0

\* C17: saving a reachable state and loading the file gives a state that is
\* field for field the Python value that was saved.
C17_RoundTrip ==
    \A drawn \in RandSeeds :
        load_game(save_game(gs, enemy_seq, dice, drawn, disk.clock), dice).state
            = asdict(gs, enemy_seq)

\* C18: the rng_seed save_game writes is the seed of the live roller: a
\* roller made from it is on the stream the live roller is on.
C18_SavedSeed ==
    (last.op = "save_game" /\ disk.file # None) =>
        DiceRoller(Some(disk.file.rng_seed), 0).rng = dice.rng

\* C19: two processes that loaded the same file and made the same calls have
\* drawn the same values, got the same results and are in the same state.
C19_Determinism ==
    twin # None =>
        /\ twin.gs = gs
        /\ twin.dice = dice
        /\ twin.enemy_seq = enemy_seq
        /\ twin.ret = last

\* both processes hit with a player attack that rolled damage
C19_Witness ==
    /\ twin # None
    /\ last.op = "player_attack"
    /\ last.success
    /\ last.drawn.count >= 2
    /\ twin.ret.op = "player_attack"
    /\ twin.ret.drawn = last.drawn
    /\ dice.pos > MaxDraws

\* C20: load_game of a missing file or of a document of another version
\* returns no state and leaves the roller and the session's state as they were.
C20_LoadRejects ==
    [][(last'.op = "load_game"
           /\ (IF disk.file = None THEN TRUE
               ELSE disk.file.version # SAVE_VERSION)) =>
         /\ ~last'.success
         /\ gs' = gs
         /\ enemy_seq' = enemy_seq
         /\ dice' = dice]_vars

\* a document of another version was refused by a session that had moved on
\* from the state in the document, in a process whose roller is unseeded
C20_Witness ==
    /\ last.op = "load_game"
    /\ ~last.success
    /\ disk.file # None
    /\ disk.file.version \in OtherVersions
    /\ disk.file.game_state.fields # gs
    /\ gs.in_combat
    /\ dice.seed = None
    /\ dice.pos > 0

-----------------------------------------------------------------------------
\* C25: turn_count never decreases within a game, and every resolved player
\* action, an exploration choice or a combat action, adds exactly one to it
C25_TurnPerAction ==
    [][/\ last'.op # "api_new_game" => gs'.turn_count >= gs.turn_count
       /\ (last'.op \in {"api_choice", "api_combat_action"} /\ last'.success)
             => gs'.turn_count = gs.turn_count + 1]_vars

\* the endings the drivers set
Endings == {"death"}

\* C26: once game_over is true and an ending is set, no later action on the
\* game sets game_over to false or clears or changes the ending
C26_TerminalSticks ==
    [][(gs.game_over /\ gs.ending \in Endings /\ last'.op # "api_new_game")
          => (gs'.game_over /\ gs'.ending = gs.ending)]_vars

\* a choice was answered after the player had died
C26_Witness ==
    /\ gs.game_over
    /\ gs.ending = "death"
    /\ last.op = "api_choice"

\* C27: active_quest is null or the id of a quest in quests; the first quest
\* added becomes the active one, adding another quest while one is active leaves
\* it alone, and completing the active quest sets it to null
C27_ActiveQuest ==
    /\ [](gs.active_quest = None \/ gs.active_quest.some \in DOMAIN gs.quests)
    /\ [][(last'.op = "api_choice" /\ last'.quest_update # None)
            => LET qu == last'.quest_update
                   quest_id == Get(qu, "quest_id", "side_quest")
                   given == IF gs.active_quest = None THEN Some(quest_id)
                            ELSE gs.active_quest
                   completes == /\ Get(qu, "status", "") = "completed"
                                /\ "quest_id" \in DOMAIN qu
                                /\ given = Some(quest_id)
               IN  gs'.active_quest = IF completes THEN None ELSE given]_vars
    /\ [][last'.op = "api_new_game"
            => gs'.active_quest = IF gs'.quests = <<>> THEN None
                                  ELSE Some("main_quest")]_vars

\* a second quest was added while the main quest was active, and the active
\* quest was then completed
C27_Witness ==
    /\ last.op = "api_choice"
    /\ last.quest_update = [quest_id |-> "main_quest", status |-> "completed"]
    /\ DOMAIN gs.quests = {"main_quest", "find_gem"}
    /\ gs.quests["main_quest"].status = "complete"
    /\ gs.active_quest = None

\* C28: every quest record's status is "active" or "complete", whatever status
\* the oracle's quest_update payloads carry
C28_QuestStatus ==
    \A k \in DOMAIN gs.quests : gs.quests[k].status \in {"active", "complete"}

\* C29: the story log never holds more than 10 events, and it holds exactly
\* the most recent events in arrival order
C29_StoryLog ==
    /\ Len(gs.story_log) = Min(Len(logged), 10)
    /\ \A i \in 1..Len(gs.story_log) :
          gs.story_log[i] = logged[Len(logged) - Len(gs.story_log) + i]

\* an eleventh event arrived, differing from the first one, which was evicted
C29_Witness ==
    /\ Len(logged) = 11
    /\ logged[1] # logged[11]
    /\ gs.story_log[10] = logged[11]

\* C30: gold is never negative, after add_gold with positive or negative
\* amounts, after victory rewards and after gold the oracle reports as found
C30_GoldNonNegative ==
    gs.gold >= 0

\* add_gold was handed an amount that would take the gold below zero
C30_Witness ==
    /\ last.op = "add_gold"
    /\ last.result = "below zero"
    /\ gs.gold = 0

\* C24: every oracle request ends with a usable payload: at most three
\* attempts are made, the first response that succeeded with non-empty parsed
\* content is returned, and when every attempt fails the result is a failure
\* with the call type's static fallback; nothing is ever raised
C24_OracleAnswers ==
    oracle # None =>
        /\ oracle.attempt <= 3
        /\ oracle.status # "raised"
        /\ \A i \in 1..(Len(oracle.asked) - 1) :
              oracle.asked[i] \notin {"json", "json_list"}
        /\ oracle.status = "returned" =>
              IF oracle.asked[oracle.attempt] \in {"json", "json_list"}
              THEN /\ oracle.result.success
                   /\ oracle.result.content # Fallback(oracle.call)
              ELSE /\ ~oracle.result.success
                   /\ oracle.result.content = Fallback(oracle.call)
                   /\ oracle.attempt = 3

\* C21: a successful load replaces the state in memory by the saved one and
\* reseeds the roller from the file, so that what follows operates on the
\* loaded state, whether the load was asked for in exploration or in combat
C21_LoadReplaces ==
    [][(last'.op = "load_game" /\ last'.success)
          => /\ gs' = json_load(disk.file.game_state).fields
             /\ dice' = set_dice_seed(dice, disk.file.rng_seed)]_vars

\* C22: the roller is scoped per session: what one session does (attacks,
\* checks, loads) leaves the stream and the position the other session draws
\* from as they were, so a session's rolls depend on its own actions only
C22_SessionRolls ==
    [][\A sid \in SessionIds :
          last'.session # sid => RollerOf(sid)' = RollerOf(sid)]_vars

\* C23: the actions of one session are processed one after the other: an
\* action is resolved, the enemy's reply included, before the next one on the
\* same GameState begins, so two requests are never under way together
C23_OneAtATime ==
    Cardinality(InFlight) <= 1

\* the number of times an item is in an inventory
CountOf(inventory, item) ==
    Cardinality({i \in 1..Len(inventory) : inventory[i] = item})

\* C31: use_item fails without changing the state when the item is not in the
\* inventory, is not a known item or is not a consumable; a successful use
\* removes exactly one instance of the item, whether or not the heal or the
\* restored ability use had an effect
C31_UseItem ==
    [][last'.op = "use_item"
         => LET item == last'.arg
                usable == /\ has_item(gs, item)
                          /\ item \in DOMAIN ITEMS
                          /\ ITEMS[item].type = "consumable"
            IN  /\ last'.success = usable
                /\ ~usable => gs' = gs
                /\ usable =>
                      /\ Len(gs'.inventory) = Len(gs.inventory) - 1
                      /\ \A other \in SheetItems \cup FoundItems :
                            CountOf(gs'.inventory, other)
                                = CountOf(gs.inventory, other)
                                    - (IF other = item THEN 1 ELSE 0)]_vars

\* a potion was drunk at full health: it is gone and the hp are as before
C31_Witness ==
    /\ last.op = "use_item"
    /\ last.arg = "Health Potion"
    /\ last.success
    /\ gs.hp = gs.max_hp
    /\ gs.player_class = "rogue"
    /\ CountOf(gs.inventory, "Health Potion") = 1

\* C32: for every n >= 0, heal returns min(n, max_hp - hp) and raises hp by
\* that amount, and take_damage returns min(n, hp) and lowers hp by that amount
C32_ClampedDelta ==
    [][/\ last'.op = "heal"
          => /\ last'.returned = Min(last'.arg, gs.max_hp - gs.hp)
             /\ gs'.hp = gs.hp + last'.returned
       /\ last'.op = "take_damage"
          => /\ last'.returned = Min(last'.arg, gs.hp)
             /\ gs'.hp = gs.hp - last'.returned]_vars

\* a heal beyond max_hp after a damage beyond hp: the delta was clamped
C32_Witness ==
    /\ last.op = "heal"
    /\ last.arg > last.returned
    /\ last.returned > 0
    /\ gs.hp = gs.max_hp

\* C38: the stored ac field equals get_ac(), the armor class enemy attacks are
\* resolved against, in every reachable state
C38_StoredAc ==
    gs.ac = get_ac(gs)

\* C33: roll_damage never reports a total below 1: whatever the dice and the
\* modifier (-99 included), it returns the dice sum plus the modifier when
\* that is at least 1, and 1 otherwise
C33_DamageFloor ==
    last.op = "roll_damage"
       => LET total == SumRolls(last.rolls) + last.modifier
          IN  /\ last.returned >= 1
              /\ total >= 1 => last.returned = total
              /\ total < 1 => last.returned = 1

\* two dice with modifier -99: the damage reported is 1
C33_Witness ==
    /\ last.op = "roll_damage"
    /\ Len(last.rolls) = 2
    /\ last.modifier = -99
    /\ last.returned = 1

\* C34: in a combat round the enemy attacks at most once and after the
\* player's action: it attacks when that action (a failed flee included) left
\* the enemy with hp > 0 and the combat going on, and it does not attack after
\* a victory or a successful flee
C34_EnemyTurn ==
    [][(last'.op = "api_combat_action" /\ gs.in_combat)
         => /\ last'.enemy_attacks \in {0, 1}
            /\ last'.result \in {"victory", "fled"} => last'.enemy_attacks = 0
            /\ last'.result = "victory" => ~gs'.in_combat /\ gs'.hp >= gs.hp
            /\ last'.result = "fled" => ~gs'.in_combat /\ gs'.hp = gs.hp
            /\ last'.result \in {"continues", "defeat"}
                  => /\ gs'.in_combat
                     /\ last'.enemy_attacks = 1 <=> last'.enemy_hp > 0
                     /\ gs'.current_enemy.hp = last'.enemy_hp]_vars

\* a round went on: the enemy, still at full hp after the player's action,
\* had its one attack, and the player is hurt
C34_Witness ==
    /\ last.op = "api_combat_action"
    /\ last.result = "continues"
    /\ last.enemy_attacks = 1
    /\ outcome = ""
    /\ gs.hp < gs.max_hp
    /\ gs.current_enemy.hp = gs.current_enemy.max_hp

\* C35: while in_combat is true no exploration choice, rest included, is
\* processed: the request leaves the game state, and with it hp and
\* current_enemy, as it was
C35_NoChoiceInCombat ==
    [][(gs.in_combat /\ last'.op = "api_choice") => gs' = gs]_vars

\* the enemy's hp, 0 without an enemy
enemy_hp_of(s) == IF s.current_enemy = None THEN 0 ELSE s.current_enemy.hp

\* C36: once the player is defeated (game_over, hp = 0) no request of the
\* session, short of a new game, changes the player's hp, inventory or ability
\* uses, or the enemy's hp
C36_DefeatFreezes ==
    [][(gs.game_over /\ gs.hp = 0 /\ last'.op # "api_new_game")
         => /\ gs'.hp = gs.hp
            /\ gs'.inventory = gs.inventory
            /\ gs'.ability_uses = gs.ability_uses
            /\ enemy_hp_of(gs') = enemy_hp_of(gs)]_vars

\* C37: a load that fails, for whatever reason (no file, another version, a
\* game_state section that is no GameState), leaves the global dice roller as
\* it was
C37_FailedLoadKeepsDice ==
    [][(last'.op = "load_game" /\ ~last'.success) => dice' = dice]_vars

\* a step inside one encounter: the enemy before and after is the same enemy
SameEncounter ==
    /\ gs.current_enemy # None
    /\ gs'.current_enemy # None
    /\ last'.op # "enter_combat"

\* within an encounter the enemy's hp does not rise and stays within max_hp,
\* which is at most 100, and a player hit lowers it by at least 1
EnemyHpFalls ==
    SameEncounter
       => /\ gs'.current_enemy.hp <= gs.current_enemy.hp
          /\ gs'.current_enemy.max_hp = gs.current_enemy.max_hp
          /\ gs'.current_enemy.hp <= gs'.current_enemy.max_hp
          /\ gs'.current_enemy.max_hp <= 100
          /\ (last'.op = "player_attack" /\ last'.success)
                => gs'.current_enemy.hp <= gs.current_enemy.hp - 1

\* C39: during an encounter the enemy's hp never increases and never exceeds
\* max_hp (<= 100), every successful player hit lowers it by at least 1, and
\* once the hits of a surviving player have taken it to 0 or below
\* check_combat_end reports the victory
C39_HitsEndInVictory ==
    [][/\ EnemyHpFalls
       /\ (/\ last'.op = "check_combat_end"
           /\ gs.in_combat
           /\ gs.hp > 0
           /\ gs.current_enemy # None
           /\ gs.current_enemy.hp <= 0)
             => last'.result = "victory"]_vars

\* the enemy's hp on every step of an encounter
EnemyHpFallsAlways == [][EnemyHpFalls]_vars

\* C40: the CombatResult of player_attack and enemy_attack has critical true
\* exactly when the raw d20 was 20
C40_CriticalFlag ==
    last.op \in {"player_attack", "enemy_attack"}
       => (last.critical <=> last.raw20)

====
